---- MODULE Spec2Model ----
(***************************************************************************)
(* State-machine model of the Sekiro world of src/__init__.py: the         *)
(* availability resolver, the region builder, the item pool and injector,  *)
(* the allow-useful item rules and the local placement router.             *)
(*                                                                         *)
(* The catalog (src/Items.py, src/Locations.py) is data handed to the      *)
(* world at start; the model keeps it in two variables that never change   *)
(* and draws it in Init from a small family of catalogs that exercises     *)
(* every flag the code branches on (event, missable, conditional, skip,    *)
(* inject, filler, unique, classification).                                *)
(***************************************************************************)
EXTENDS Integers, Sequences, FiniteSets, TLC

VARIABLES
    item_dictionary,            \* catalog: sequence of SekiroItemData, in _vanilla_items order
    location_tables,            \* catalog: region name -> sequence of SekiroLocationData
    excluded_location_behavior, \* options.excluded_location_behavior (1..3)
    missable_location_behavior, \* options.missable_location_behavior (1..3)
    exclude_locations,          \* options.exclude_locations.value
    priority_locations,         \* options.priority_locations.value
    all_excluded_locations,     \* self.all_excluded_locations
    created_regions,            \* self.created_regions
    locations,                  \* multiworld locations of the player: name -> instance
    location_order,             \* order of multiworld.get_locations(player)
    local_itempool,             \* self.local_itempool
    itempool,                   \* multiworld.itempool
    precollected,               \* multiworld.precollected_items[player]
    warnings,                   \* what logging.warning was called with
    pc,                         \* the generation step the host runs next
    next_region,                \* index into RegionOrder of the next create_region call
    next_item_id,               \* SekiroItemData.__item_id, the class-level counter
    next_location_id,           \* SekiroLocationData.__location_id, the class-level counter
    worlds,                     \* a second world of the process, and the class attributes
    placements,                 \* number of placement calls made so far
    entrances,                  \* entrances of the player's regions, in creation order
    rules_added,                \* every rule the rule engine attached, with its target
    random,                     \* self.random: state of the world's seeded generator
    last                        \* the last operation called, its arguments and what it returned

vars == <<item_dictionary, location_tables, excluded_location_behavior,
          missable_location_behavior, exclude_locations, priority_locations,
          all_excluded_locations, created_regions, locations, location_order,
          local_itempool, itempool, precollected, warnings, pc, next_region,
          next_item_id, next_location_id, worlds, placements, entrances, rules_added,
          random, last>>

catalog_vars == <<item_dictionary, location_tables, next_location_id, worlds>>
option_vars == <<excluded_location_behavior, missable_location_behavior>>
rule_vars == <<entrances, rules_added>>

(***************************************************************************)
(* Python values                                                           *)
(***************************************************************************)
None == "None"

\* Optional[int]: no code, or the code n
NoCode == <<>>
Code(n) == <<n>>

\* ItemClassification
progression == "progression"
useful == "useful"
filler == "filler"

\* SekiroItemCategory
MISC == "MISC"
UNIQUE == "UNIQUE"
UPGRADE == "UPGRADE"

\* LocationProgressType
DEFAULT == "DEFAULT"
EXCLUDED == "EXCLUDED"

\* ExcludedLocationBehaviorOption / MissableLocationBehaviorOption
option_allow_useful == 1
option_forbid_useful == 2
option_do_not_randomize == 3

OptionValues == {option_allow_useful, option_forbid_useful, option_do_not_randomize}

\* Choice.__eq__ against an option name compares the option's value with the
\* value that name stands for.
OptionNamed(option_name) ==
    CASE option_name = "allow_useful" -> option_allow_useful
      [] option_name = "forbid_useful" -> option_forbid_useful
      [] option_name = "do_not_randomize" -> option_do_not_randomize

\* SekiroItemData.__item_id / SekiroLocationData.__location_id start values
item_id_start == 100000
location_id_start == 100000

\* range(0, 10) of _replace_with_filler
FillerTries == 10

(***************************************************************************)
(* Bounds of the model                                                     *)
(***************************************************************************)
\* placement calls (_fill_local_item, fill step) explored after create_items
MaxPlacements == 2
\* largest deficit handed to _create_injectable_items on its own
MaxDeficit == 3
\* rules attached by the rule engine when it is run on its own
MaxRules == 2
MaxEvents == 2

(***************************************************************************)
(* Sequence helpers                                                        *)
(***************************************************************************)
Range(s) == {s[i] : i \in DOMAIN s}

RECURSIVE SeqFilterIdx(_, _, _)
\* the subsequence of s at the indices >= i whose element is in keep
SeqFilterIdx(s, i, keep) ==
    IF i > Len(s) THEN <<>>
    ELSE IF s[i] \in keep THEN <<s[i]>> \o SeqFilterIdx(s, i + 1, keep)
         ELSE SeqFilterIdx(s, i + 1, keep)

SeqFilter(s, keep) == SeqFilterIdx(s, 1, keep)

\* list.remove(x) for an x known to be at index i
RemoveAt(s, i) == SubSeq(s, 1, i - 1) \o SubSeq(s, i + 1, Len(s))

\* index of the first element of s that satisfies the test, 0 when none does
FirstIndex(s, ok) ==
    IF \E i \in DOMAIN s : s[i] \in ok
    THEN CHOOSE i \in DOMAIN s : s[i] \in ok /\ \A j \in 1..(i - 1) : s[j] \notin ok
    ELSE 0

\* random.sample(population, k): k distinct picks, in any order
Sample(population, k) ==
    {s \in [1..k -> population] : \A i, j \in 1..k : i # j => s[i] # s[j]}

Min(a, b) == IF a < b THEN a ELSE b
Max(a, b) == IF a > b THEN a ELSE b

(***************************************************************************)
(* Catalog: src/Items.py, src/Locations.py                                 *)
(***************************************************************************)
\* SekiroItemData(...), before __post_init__ has run
SekiroItemData(name, category, classification, inject, is_filler, skip) ==
    [name |-> name, category |-> category, classification |-> classification,
     ap_code |-> NoCode, inject |-> inject, filler |-> is_filler, skip |-> skip]

\* SekiroItemData.__post_init__ over a list built in order: the i-th item
\* built takes the counter's value and the counter moves on by one.
ItemPostInit(items, first_id) ==
    [i \in DOMAIN items |->
        [items[i] EXCEPT !.ap_code = IF @ # NoCode THEN @ ELSE Code(first_id + (i - 1))]]

\* SekiroItemData.unique
unique(data) == data.category \notin {MISC, UPGRADE}

\* SekiroLocationData(...), before __post_init__ has run
SekiroLocationData(name, default_item_name, missable, conditional) ==
    [name |-> name, default_item_name |-> default_item_name, ap_code |-> NoCode,
     missable |-> missable, conditional |-> conditional]

\* SekiroLocationData.is_event
is_event(data) == data.default_item_name = None

\* SekiroLocationData.__post_init__ over the locations built in order: only a
\* location that is no event takes a code and moves the counter.
LocationPostInit(flat, first_id) ==
    [i \in DOMAIN flat |->
        IF is_event(flat[i]) THEN flat[i]
        ELSE [flat[i] EXCEPT !.ap_code =
                 IF @ # NoCode THEN @
                 ELSE Code(first_id + Cardinality({j \in 1..(i - 1) : ~is_event(flat[j])}))]]

\* The catalogs Init draws from.  Keys of location_tables in dict order:
TableOrder == <<"R1", "R2">>

\* One item per combination of flags the code branches on: a unique
\* progression item, a unique useful item, two fillers (one of them
\* classified progression, which an allow-useful rule rejects), a skip item,
\* a mandatory injectable.
ItemCatalog ==
    ItemPostInit(<<
        SekiroItemData("Key", UNIQUE, progression, FALSE, FALSE, FALSE),
        SekiroItemData("Memory", UNIQUE, useful, FALSE, FALSE, FALSE),
        SekiroItemData("Sugar", MISC, filler, FALSE, TRUE, FALSE),
        SekiroItemData("Lure", MISC, progression, FALSE, TRUE, FALSE),
        SekiroItemData("Bait", MISC, filler, FALSE, FALSE, TRUE),
        SekiroItemData("Bell", UNIQUE, progression, TRUE, FALSE, FALSE),
        SekiroItemData("Scroll", UNIQUE, useful, FALSE, FALSE, FALSE)
    >>, item_id_start)

\* The same items with the inject flag on any of the four unique ones: the
\* catalogs the injector is run on by itself.
InjectCatalogs ==
    {[i \in DOMAIN ItemCatalog |->
         [ItemCatalog[i] EXCEPT !.inject = ItemCatalog[i].name \in flagged]] :
        flagged \in SUBSET {"Key", "Memory", "Bell", "Scroll"}}

RawLocationTables ==
    [r \in Range(TableOrder) |->
        IF r = "R1"
        THEN << SekiroLocationData("L1", "Key", FALSE, FALSE),
                SekiroLocationData("L2", "Memory", TRUE, FALSE),
                SekiroLocationData("E1", None, FALSE, FALSE) >>
        ELSE << SekiroLocationData("L3", "Key", FALSE, TRUE),
                SekiroLocationData("L4", "Bait", FALSE, FALSE) >>]

LocationCatalog ==
    LET flat == RawLocationTables["R1"] \o RawLocationTables["R2"]
        coded == LocationPostInit(flat, location_id_start)
        n1 == Len(RawLocationTables["R1"])
    IN  [r \in Range(TableOrder) |->
            IF r = "R1" THEN SubSeq(coded, 1, n1)
            ELSE SubSeq(coded, n1 + 1, Len(coded))]

\* item_dictionary[name]
ItemNames == {item_dictionary[i].name : i \in DOMAIN item_dictionary}
ItemNamed(name) ==
    item_dictionary[CHOOSE i \in DOMAIN item_dictionary : item_dictionary[i].name = name]

\* filler_item_names
filler_item_names ==
    {item_dictionary[i].name : i \in {j \in DOMAIN item_dictionary : item_dictionary[j].filler}}

\* get_filler_item_name: random.choice(filler_item_names), any of them
get_filler_item_name == filler_item_names

\* location_dictionary
AllLocationData == UNION {Range(location_tables[r]) : r \in DOMAIN location_tables}
LocationNames == {d.name : d \in AllLocationData}
location_dictionary(name) == CHOOSE d \in AllLocationData : d.name = name

\* location_name_to_id: the names an ExcludeLocations option may hold
location_name_to_id == {d.name : d \in {e \in AllLocationData : e.ap_code # NoCode}}

\* order of create_region calls in create_regions
RegionOrder == <<"Menu">> \o TableOrder

\* the location_table argument of each create_region call
TableOf(region_name) ==
    IF region_name = "Menu" THEN <<>> ELSE location_tables[region_name]

(***************************************************************************)
(* Items                                                                   *)
(***************************************************************************)
\* SekiroItem(player, data): name, classification and code of its data
SekiroItem(data) ==
    [name |-> data.name, classification |-> data.classification, code |-> data.ap_code]

\* SekiroWorld.create_item
create_item(name) == SekiroItem(ItemNamed(name))

\* SekiroItem.event: progression, skip, no code
event(name) ==
    SekiroItem([SekiroItemData(name, MISC, progression, FALSE, FALSE, TRUE)
                   EXCEPT !.ap_code = NoCode])

\* Item.advancement
advancement(item) == item.classification = progression

(***************************************************************************)
(* SekiroWorld._is_location_available                                      *)
(***************************************************************************)
\* the resolver with the missable test left out
IsAvailableIn_IgnoresMissable(data, all_excluded) ==
    /\ ~is_event(data)
    /\ ~(/\ excluded_location_behavior = OptionNamed("do_not_randomize")
         /\ data.name \in all_excluded)

\* the resolver against a given exclusion set (the loop of create_region
\* changes the set between two calls)
IsAvailableIn(data, all_excluded) ==
    /\ ~is_event(data)
    /\ ~(/\ excluded_location_behavior = OptionNamed("do_not_randomize")
         /\ data.name \in all_excluded)
    /\ ~(/\ missable_location_behavior = OptionNamed("do_not_randomize")
         /\ data.missable)

_is_location_available(data) == IsAvailableIn(data, all_excluded_locations)


(***************************************************************************)
(* Locations of the multiworld                                             *)
(***************************************************************************)
\* Location.item of an unfilled location
NoItem == [name |-> None, classification |-> None, code |-> NoCode]

\* an item rule is the conjunction of the rules added so far; a location
\* starts with the rule that accepts every item (no rule added)
NotAdvancement == "not item.advancement"
\* a second item rule, for callers of _add_item_rule other than the
\* allow-useful step: lambda item: item.classification != useful
NotUseful == "item.classification != useful"

RuleAccepts(rule, item) ==
    CASE rule = NotAdvancement -> ~advancement(item)
      [] rule = NotUseful -> item.classification # useful

\* Location.item_rule(item)
item_rule(location, item) ==
    \A i \in DOMAIN location.item_rule : RuleAccepts(location.item_rule[i], item)

\* worlds.generic.Rules.add_item_rule: the new rule AND the old one
add_item_rule(location, rule) ==
    [location EXCEPT !.item_rule = Append(@, rule)]

\* SekiroLocation(player, data, parent, event): an event location has no address
SekiroLocation(data, parent, as_event) ==
    [name |-> data.name,
     address |-> IF as_event THEN NoCode ELSE data.ap_code,
     parent |-> parent,
     item |-> NoItem,
     locked |-> FALSE,
     progress_type |-> DEFAULT,
     access_rule |-> <<>>,
     item_rule |-> <<>>]

\* Location.place_locked_item
place_locked_item(location, item) ==
    [location EXCEPT !.item = item, !.locked = TRUE]

\* multiworld.get_locations(player)
_get_our_locations == [i \in DOMAIN location_order |-> locations[location_order[i]]]

\* multiworld.get_unfilled_locations(player)
get_unfilled_locations ==
    SeqFilter(_get_our_locations, {l \in Range(_get_our_locations) : l.item = NoItem})

(***************************************************************************)
(* self.random: the generator the host seeds for the world.  A draw is a   *)
(* set of outcomes, each the value drawn and the generator's next state:   *)
(* on the world's own generator there is exactly one.                      *)
(***************************************************************************)
\* the seeds the host may hand out, and the generator's step
Seeds == 0..7
RandomNext(x) == (5 * x + 3) % 8

\* a choice made on the module-level generator, which the seed does not
\* govern
random_choice_Global(seq, x) ==
    {[value |-> seq[i], random |-> x] : i \in DOMAIN seq}

\* self.random.choice(seq)
random_choice(seq, x) ==
    {[value |-> seq[(RandomNext(x) % Len(seq)) + 1], random |-> RandomNext(x)]}

RECURSIVE SampleLoop(_, _, _, _)
\* the selection loop of Random.sample: draw a position of the pool, move
\* the pool's last element there
SampleLoop(pool, k, x, result) ==
    IF k = 0 THEN [value |-> result, random |-> x]
    ELSE LET j == (RandomNext(x) % Len(pool)) + 1
         IN  SampleLoop(SubSeq([pool EXCEPT ![j] = pool[Len(pool)]], 1, Len(pool) - 1),
                        k - 1, RandomNext(x), Append(result, pool[j]))

\* self.random.sample(population, k); no outcome (ValueError) for a k
\* larger than the population
random_sample(population, k, x) ==
    IF k > Len(population) THEN {} ELSE {SampleLoop(population, k, x, <<>>)}

(***************************************************************************)
(* Access rules: worlds.generic.Rules.add_rule, _add_location_rule,        *)
(* _add_entrance_rule                                                      *)
(***************************************************************************)
\* the items access rules ask a CollectionState for, and the states: how
\* many of each the player has collected
RuleItems == {"Key", "Bell", "Memory", "R1 -> R2"}
CollectionStates == [RuleItems -> 0..2]

\* CollectionState.has(item, player)
has(state, item) == state[item] >= 1

\* a CollectionRule: lambda state: state.has(i) for every i of the items
Requires(items) == [requires |-> items]
Holds(rule, state) == \A item \in rule.requires : has(state, item)

\* the rule argument of the two methods, Union[CollectionRule, str]
StrRule(item_name) == [is_str |-> TRUE, item |-> item_name, requires |-> {}]
LambdaRule(items) == [is_str |-> FALSE, item |-> None, requires |-> items]

\* the bare name taken as it comes, whatever its classification
SugarAsserts_Never(rule) == TRUE

\* isinstance(rule, str): assert item_dictionary[rule].classification ==
\* ItemClassification.progression
SugarAsserts(rule) ==
    rule.is_str => ItemNamed(rule.item).classification = progression

\* " -> " in rule, for the names the rule methods are given
HasArrow(item_name) == item_name \in {"R1 -> R2"}

\* the assertion of _add_entrance_rule, which a name holding " -> " skips
EntranceSugarAsserts(rule) ==
    (rule.is_str /\ ~HasArrow(rule.item)) => SugarAsserts(rule)

\* rule = lambda state, item=rule: state.has(item, self.player)
AsCollectionRule(rule) ==
    IF rule.is_str THEN Requires({rule.item}) ELSE Requires(rule.requires)

\* add_rule that overwrites the rule of the spot
add_rule_Replaces(spot, rule) ==
    [spot EXCEPT !.access_rule = <<rule>>]

\* add_rule(spot, rule), combine = "and": the rule alone on a spot that has
\* the default rule, else lambda state: rule(state) and old_rule(state)
add_rule(spot, rule) ==
    [spot EXCEPT !.access_rule = IF @ = <<>> THEN <<rule>> ELSE <<rule>> \o @]

\* spot.access_rule(state)
access_rule(spot, state) ==
    \A i \in DOMAIN spot.access_rule : Holds(spot.access_rule[i], state)

\* Entrance(player, name, parent), connected to a region
Entrance(name, parent, connected_region) ==
    [name |-> name, parent |-> parent, connected_region |-> connected_region,
     access_rule |-> <<>>]

\* f"Go To {to_region}" and "New Game"
GoTo(region) == <<"Go To", region>>
NewGame == <<"New Game", "">>

\* create_connection calls of create_regions, in order; as in the source, a
\* connection is made twice, which gives two entrances of one name
Connections == << <<"R1", "R2">>, <<"R1", "R2">> >>

\* the entrances create_regions makes: New Game from Menu to the first
\* region, then one per create_connection call
ConnectRegions ==
    <<Entrance(NewGame, "Menu", "R1")>> \o
    [i \in DOMAIN Connections |->
        Entrance(GoTo(Connections[i][2]), Connections[i][1], Connections[i][2])]

\* multiworld.get_entrance(name, player): the entrances are looked up by
\* name alone and an entrance replaces an earlier one of its name; the
\* position in entrances of the one found, 0 when there is none
get_entrance(name) ==
    IF \E i \in DOMAIN entrances : entrances[i].name = name
    THEN CHOOSE i \in DOMAIN entrances :
            /\ entrances[i].name = name
            /\ \A j \in DOMAIN entrances : entrances[j].name = name => j <= i
    ELSE 0

\* what a rule method leaves: the spots, the error it raised if any, the
\* names of the spots it attached the rule to
RuleOutcome(spots, error, attached) ==
    [spots |-> spots, error |-> error, attached |-> attached]

RECURSIVE AddLocationRuleLoop(_, _, _, _)
\* the loop of _add_location_rule from the i-th location on; rule is bound
\* to the lambda once a bare item name has been converted
AddLocationRuleLoop(names, i, rule, acc) ==
    IF i > Len(names) \/ acc.error # None THEN acc
    ELSE IF names[i] \notin LocationNames
         THEN [acc EXCEPT !.error = "KeyError"]
    ELSE IF ~_is_location_available(location_dictionary(names[i]))
         THEN AddLocationRuleLoop(names, i + 1, rule, acc)
    ELSE IF ~SugarAsserts(rule)
         THEN [acc EXCEPT !.error = "AssertionError"]
    ELSE AddLocationRuleLoop(names, i + 1, LambdaRule(AsCollectionRule(rule).requires),
            [acc EXCEPT !.spots[names[i]] = add_rule(@, AsCollectionRule(rule)),
                        !.attached = Append(@, names[i])])

\* _add_location_rule(location, rule), location a list of names
_add_location_rule(location, rule) ==
    AddLocationRuleLoop(location, 1, rule, RuleOutcome(locations, None, <<>>))

\* _add_entrance_rule without the test on created_regions
_add_entrance_rule_NoSkip(region, rule) ==
    IF region \notin DOMAIN location_tables
    THEN RuleOutcome(entrances, "AssertionError", <<>>)
    ELSE IF ~EntranceSugarAsserts(rule)
    THEN RuleOutcome(entrances, "AssertionError", <<>>)
    ELSE IF get_entrance(GoTo(region)) = 0
    THEN RuleOutcome(entrances, "KeyError", <<>>)
    ELSE RuleOutcome(
            [entrances EXCEPT ![get_entrance(GoTo(region))] =
                add_rule(@, AsCollectionRule(rule))],
            None, <<region>>)

\* _add_entrance_rule(region, rule) on entrances that carry the rules in
\* spots
AddEntranceRuleTo(spots, region, rule) ==
    IF region \notin DOMAIN location_tables
    THEN RuleOutcome(spots, "AssertionError", <<>>)
    ELSE IF region \notin created_regions
    THEN RuleOutcome(spots, None, <<>>)
    ELSE IF ~EntranceSugarAsserts(rule)
    THEN RuleOutcome(spots, "AssertionError", <<>>)
    ELSE IF get_entrance(GoTo(region)) = 0
    THEN RuleOutcome(spots, "KeyError", <<>>)
    ELSE RuleOutcome(
            [spots EXCEPT ![get_entrance(GoTo(region))] =
                add_rule(@, AsCollectionRule(rule))],
            None, <<region>>)

\* _add_entrance_rule(region, rule)
_add_entrance_rule(region, rule) == AddEntranceRuleTo(entrances, region, rule)

\* the exception taken for every excluded location, whatever the policies
MarksExcluded_UnlessExcluded(data, all_excluded) ==
    /\ data.missable
    /\ missable_location_behavior = OptionNamed("forbid_useful")
    /\ data.name \notin all_excluded

(***************************************************************************)
(* SekiroWorld.create_region                                               *)
(***************************************************************************)
\* the missable location of create_region that is marked EXCLUDED
MarksExcluded(data, all_excluded) ==
    /\ data.missable
    /\ missable_location_behavior = OptionNamed("forbid_useful")
    /\ ~(/\ data.name \in all_excluded
         /\ missable_location_behavior < excluded_location_behavior)

\* the comparison of the two policies the other way round
RemovesFromAllExcluded_Reversed ==
    ~(excluded_location_behavior < missable_location_behavior)

\* whether create_region drops an unavailable location's name from
\* all_excluded_locations once it has dropped it from the configured set
RemovesFromAllExcluded ==
    ~(missable_location_behavior < excluded_location_behavior)

\* the locked item with its code left on it
EventItem_KeepsCode(data) ==
    IF data.default_item_name # None
    THEN create_item(data.default_item_name)
    ELSE event(data.name)

\* the item an unavailable location is locked with: its default item, or an
\* event of its own name, with the code taken away
EventItem(data) ==
    LET event_item ==
            IF data.default_item_name # None
            THEN create_item(data.default_item_name)
            ELSE event(data.name)
    IN  [event_item EXCEPT !.code = NoCode]

\* a remove that empties the set
set_remove_Clears(set, name) == {}

\* set.remove(name) on a set that holds the name
set_remove(set, name) == set \ {name}

\* one turn of the loop of create_region over location_table; acc carries
\* what the loop has changed so far
CreateRegionStep(region_name, data, acc) ==
    IF IsAvailableIn(data, acc.all_excluded)
    THEN LET new_location == SekiroLocation(data, region_name, FALSE)
         IN  [acc EXCEPT
                !.new = Append(@,
                    IF MarksExcluded(data, acc.all_excluded)
                    THEN [new_location EXCEPT !.progress_type = EXCLUDED]
                    ELSE new_location)]
    ELSE LET new_location ==
                 place_locked_item(SekiroLocation(data, region_name, TRUE),
                                   EventItem(data))
             in_excluded == data.name \in acc.excluded
             removes == in_excluded /\ RemovesFromAllExcluded
         IN  [acc EXCEPT
                !.new = Append(@, new_location),
                !.item_id = IF data.default_item_name # None THEN @ ELSE @ + 1,
                !.excluded = IF in_excluded THEN set_remove(@, data.name) ELSE @,
                !.all_excluded = IF removes THEN set_remove(@, data.name) ELSE @,
                \* set.remove of a name that is not in the set raises KeyError
                !.key_error = @ \/ (removes /\ data.name \notin acc.all_excluded)]

RECURSIVE CreateRegionLoop(_, _, _, _)
CreateRegionLoop(region_name, location_table, i, acc) ==
    IF i > Len(location_table) \/ acc.key_error THEN acc
    ELSE CreateRegionLoop(region_name, location_table, i + 1,
                          CreateRegionStep(region_name, location_table[i], acc))

\* the whole call: what it leaves in the two exclusion sets, the locations
\* it attaches to the new region, the item id counter
create_region(region_name, location_table) ==
    CreateRegionLoop(region_name, location_table, 1,
        [new |-> <<>>, excluded |-> exclude_locations,
         all_excluded |-> all_excluded_locations,
         item_id |-> next_item_id, key_error |-> FALSE])


(***************************************************************************)
(* Inputs                                                                  *)
(***************************************************************************)
\* priority_locations a player may configure
PrioritySets == {{"L1", "L2"}}

\* the rule argument of _add_location_rule and _add_entrance_rule: a bare
\* name of a progression item, of a useful item, or a lambda
RuleArguments == {StrRule("Key"), StrRule("Memory"), LambdaRule({"Key", "Bell"})}

\* the rule argument of _add_entrance_rule: a name holding " -> " as well
EntranceRuleArguments == RuleArguments \cup {StrRule("R1 -> R2")}

\* the location argument of _add_location_rule: a name or a list of names
LocationArguments == {<<"L1">>, <<"L2">>, <<"L2", "L1">>}

\* the region argument of _add_entrance_rule: R1 has no Go To entrance
RegionArguments == {"R1", "R2"}

\* the arguments of _add_item_rule
ItemRuleLocations == {"L1", "L2"}
ItemRules == {NotAdvancement, NotUseful}

\* the regions argument of _fill_local_item
RegionLists == {<<"R1">>, <<"R1", "R2">>}

\* the additional_condition argument of _fill_local_item: absent, or a
\* predicate on location data, given by the locations it accepts
NoCondition == [given |-> FALSE, accepts |-> {}]
Conditions == {NoCondition, [given |-> TRUE, accepts |-> {"L4"}]}

\* what `last` holds when nothing has been called yet
NoCall ==
    [op |-> "__init__", name |-> None, regions |-> <<>>, condition |-> NoCondition,
     num |-> 0, result |-> FALSE, items |-> <<>>, candidates |-> {}, chosen |-> None,
     target |-> None, draws |-> <<>>,
     data |-> SekiroLocationData(None, None, FALSE, FALSE),
     locations_before |-> <<>>, pool_before |-> <<>>, excluded_before |-> {},
     all_excluded_before |-> {}, precollected_before |-> <<>>,
     warnings_before |-> <<>>,
     rule |-> LambdaRule({}), item_rule |-> None, names |-> <<>>, error |-> None,
     entrances_before |-> <<>>, items_first |-> <<>>, tables_first |-> <<>>]

(***************************************************************************)
(* The world after __init__                                                *)
(***************************************************************************)
TypeOK ==
    /\ excluded_location_behavior \in OptionValues
    /\ missable_location_behavior \in OptionValues
    /\ exclude_locations \subseteq LocationNames
    /\ all_excluded_locations \subseteq LocationNames
    /\ created_regions \subseteq Range(RegionOrder)
    /\ Range(location_order) = DOMAIN locations
    /\ pc \in {"generate_early", "create_regions", "create_items", "set_rules",
               "pre_fill", "fill", "aborted", "resolve", "inject", "injected", "rebuilt",
               "import", "generate", "reimport"}
    /\ worlds.other.id \in 0..2
    /\ random \in Seeds

\* the attributes the class body of SekiroWorld sets: all_excluded_locations
\* = set() and local_itempool = []
ClassAttributes == [all_excluded_locations |-> {}, local_itempool |-> <<>>]

InitWorld ==
    /\ location_tables = LocationCatalog
    /\ excluded_location_behavior \in OptionValues
    /\ missable_location_behavior \in OptionValues
    /\ created_regions = {}
    /\ locations = <<>>
    /\ location_order = <<>>
    /\ local_itempool = <<>>
    /\ itempool = <<>>
    /\ precollected = <<>>
    /\ warnings = <<>>
    /\ next_region = 1
    /\ next_item_id = item_id_start + Len(item_dictionary)
    /\ next_location_id =
          location_id_start + Cardinality({d \in AllLocationData : ~is_event(d)})
    /\ placements = 0
    /\ entrances = <<>>
    /\ rules_added = <<>>
    /\ last = NoCall

\* a process that holds one world
OneWorld == [other |-> [id |-> 0], cls |-> ClassAttributes]

Init ==
    /\ random = 0
    /\ item_dictionary = ItemCatalog
    /\ InitWorld
    /\ worlds = OneWorld
    \* the option's names are verified against location_name_to_id
    /\ exclude_locations \in SUBSET location_name_to_id
    /\ priority_locations \in PrioritySets
    /\ all_excluded_locations = {}
    /\ pc = "generate_early"

(***************************************************************************)
(* generate_early                                                          *)
(***************************************************************************)
GenerateEarly ==
    /\ pc = "generate_early"
    /\ created_regions' = {}
    /\ all_excluded_locations' = all_excluded_locations \cup exclude_locations
    /\ pc' = "create_regions"
    /\ last' = [NoCall EXCEPT !.op = "generate_early"]
    /\ UNCHANGED <<catalog_vars, option_vars, random, rule_vars, exclude_locations, priority_locations,
                   locations, location_order, local_itempool, itempool, precollected,
                   warnings, next_region, next_item_id, placements>>

(***************************************************************************)
(* create_regions: one create_region call per step, in the order of the    *)
(* list in create_regions                                                  *)
(***************************************************************************)
CreateRegion ==
    /\ pc = "create_regions"
    /\ next_region <= Len(RegionOrder)
    /\ LET region_name == RegionOrder[next_region]
           done == create_region(region_name, TableOf(region_name))
       IN  /\ exclude_locations' = done.excluded
           /\ all_excluded_locations' = done.all_excluded
           /\ next_item_id' = done.item_id
           /\ last' = [NoCall EXCEPT !.op = "create_region", !.name = region_name,
                                     !.excluded_before = exclude_locations,
                                     !.all_excluded_before = all_excluded_locations]
           /\ IF done.key_error
              THEN /\ pc' = "aborted"
                   /\ UNCHANGED <<locations, location_order, created_regions, next_region,
                                  entrances>>
              ELSE /\ locations' =
                        [n \in DOMAIN locations \cup {l.name : l \in Range(done.new)} |->
                            IF \E l \in Range(done.new) : l.name = n
                            THEN CHOOSE l \in Range(done.new) : l.name = n
                            ELSE locations[n]]
                   /\ location_order' =
                        location_order \o [i \in DOMAIN done.new |-> done.new[i].name]
                   /\ created_regions' = created_regions \cup {region_name}
                   /\ next_region' = next_region + 1
                   \* the connections are made once the last region is built
                   /\ entrances' = IF next_region = Len(RegionOrder)
                                   THEN ConnectRegions ELSE entrances
                   /\ pc' = IF next_region = Len(RegionOrder)
                            THEN "create_items" ELSE "create_regions"
    /\ UNCHANGED <<catalog_vars, option_vars, random, rules_added, priority_locations,
                   local_itempool, itempool, precollected, warnings, placements>>


(***************************************************************************)
(* SekiroWorld._create_injectable_items                                    *)
(***************************************************************************)
all_injectable_items ==
    SeqFilter(item_dictionary, {d \in Range(item_dictionary) : d.inject})

injectable_mandatory ==
    SeqFilter(all_injectable_items,
              {d \in Range(all_injectable_items) : d.classification = progression})

injectable_optional ==
    SeqFilter(all_injectable_items,
              {d \in Range(all_injectable_items) : d.classification # progression})

\* every mandatory injectable sampled, whatever the deficit
MandatorySampleSize_All(number_to_inject) ==
    Len(injectable_mandatory)

\* how many of the mandatory / optional injectables are sampled
MandatorySampleSize(number_to_inject) ==
    Min(Len(injectable_mandatory), number_to_inject)

\* the optional sample taken without regard to the mandatory injectables
OptionalSampleSize_OwnQuota(number_to_inject) ==
    Min(Len(injectable_optional), number_to_inject)

OptionalSampleSize(number_to_inject) ==
    Max(0, number_to_inject - Len(injectable_mandatory))

\* every mandatory injectable pushed, the sampled ones too
ForceGranted_All(number_to_inject, items) ==
    IF number_to_inject < Len(injectable_mandatory)
    THEN injectable_mandatory
    ELSE <<>>

\* the mandatory injectables pushed to the starting inventory, in catalog order
ForceGranted(number_to_inject, items) ==
    IF number_to_inject < Len(injectable_mandatory)
    THEN SeqFilter(injectable_mandatory,
                   {d \in Range(injectable_mandatory) : d \notin Range(items)})
    ELSE <<>>

\* every outcome of the call: the list it returns and the items it pushes
\* to the starting inventory (one warning each)
_create_injectable_items(num_required_extra_items) ==
    LET number_to_inject == Min(num_required_extra_items, Len(all_injectable_items))
    IN  {[items |-> [i \in DOMAIN (m \o o) |-> SekiroItem((m \o o)[i])],
          granted |-> [i \in DOMAIN ForceGranted(number_to_inject, m \o o) |->
                          SekiroItem(ForceGranted(number_to_inject, m \o o)[i])]] :
            m \in Sample(Range(injectable_mandatory), MandatorySampleSize(number_to_inject)),
            o \in Sample(Range(injectable_optional), OptionalSampleSize(number_to_inject))}

\* the warning of _create_injectable_items / of _fill_local_item
InjectWarning(item_name) == [about |-> "inject", item |-> item_name]
FillWarning(item_name) == [about |-> "fill", item |-> item_name]

(***************************************************************************)
(* SekiroWorld.create_items                                                *)
(***************************************************************************)
\* one turn of the loop over the unfilled locations
\* the body of the loop after the availability test
GatherDefault(location, acc) ==
    LET default_item_name == location_dictionary(location.name).default_item_name
        item == ItemNamed(default_item_name)
    IN  IF item.skip
        THEN [acc EXCEPT !.extra = @ + 1]
        ELSE IF ~unique(item)
        THEN [acc EXCEPT !.pool = Append(@, create_item(default_item_name))]
        ELSE IF default_item_name \in acc.item_set
        THEN [acc EXCEPT !.extra = @ + 1]
        ELSE [acc EXCEPT !.item_set = @ \cup {default_item_name},
                         !.pool = Append(@, create_item(default_item_name))]

\* the availability test reduced to the test for an event
GatherStep_OnlyEvents(location, acc) ==
    IF is_event(location_dictionary(location.name))
    THEN [acc EXCEPT !.raised = TRUE]
    ELSE GatherDefault(location, acc)

GatherStep(location, acc) ==
    IF ~_is_location_available(location_dictionary(location.name))
    THEN [acc EXCEPT !.raised = TRUE]
    ELSE GatherDefault(location, acc)

RECURSIVE GatherLoop(_, _, _)
GatherLoop(unfilled, i, acc) ==
    IF i > Len(unfilled) \/ acc.raised THEN acc
    ELSE GatherLoop(unfilled, i + 1, GatherStep(unfilled[i], acc))

GatherDefaults ==
    GatherLoop(get_unfilled_locations, 1,
               [pool |-> <<>>, item_set |-> {}, extra |-> 0, raised |-> FALSE])

CreateItems ==
    /\ pc = "create_items"
    /\ LET gathered == GatherDefaults
       IN  IF gathered.raised
           THEN \* raise Exception("Sekiro generation bug: Added an unavailable location.")
                /\ pc' = "aborted"
                /\ local_itempool' = gathered.pool
                /\ last' = [NoCall EXCEPT !.op = "create_items"]
                /\ UNCHANGED <<itempool, precollected, warnings>>
           ELSE \E injected \in _create_injectable_items(gathered.extra) :
                \E fillers \in [1..(gathered.extra - Len(injected.items)) ->
                                    get_filler_item_name] :
                    /\ local_itempool' =
                          gathered.pool \o injected.items
                          \o [i \in DOMAIN fillers |-> create_item(fillers[i])]
                    /\ itempool' = itempool \o local_itempool'
                    /\ precollected' = precollected \o injected.granted
                    /\ warnings' = warnings \o
                          [i \in DOMAIN injected.granted |->
                              InjectWarning(injected.granted[i].name)]
                    /\ pc' = "set_rules"
                    /\ last' = [NoCall EXCEPT !.op = "create_items",
                                              !.num = gathered.extra,
                                              !.items = injected.items,
                                              !.precollected_before = precollected,
                                              !.warnings_before = warnings]
    /\ UNCHANGED <<catalog_vars, option_vars, random, rule_vars, exclude_locations, priority_locations,
                   all_excluded_locations, created_regions, locations, location_order,
                   next_region, next_item_id, placements>>


(***************************************************************************)
(* SekiroWorld._add_allow_useful_location_rules, _add_item_rule            *)
(***************************************************************************)
\* the excluded part of allow_useful_locations
AllowUsefulExcluded ==
    IF excluded_location_behavior = OptionNamed("allow_useful")
    THEN IF excluded_location_behavior < missable_location_behavior
         THEN {l.name : l \in {m \in Range(_get_our_locations) :
                                  /\ m.name \in all_excluded_locations
                                  /\ ~location_dictionary(m.name).missable}}
         ELSE all_excluded_locations
    ELSE {}

\* the missable part without the exception for a location the exclusion
\* policy governs more strictly
AllowUsefulMissable_NoException ==
    IF missable_location_behavior = OptionNamed("allow_useful")
    THEN {l.name : l \in {m \in Range(_get_our_locations) :
                             location_dictionary(m.name).missable}}
    ELSE {}

\* the missable part of allow_useful_locations
AllowUsefulMissable ==
    IF missable_location_behavior = OptionNamed("allow_useful")
    THEN {l.name : l \in {m \in Range(_get_our_locations) :
                             /\ location_dictionary(m.name).missable
                             /\ ~(/\ m.name \in all_excluded_locations
                                  /\ missable_location_behavior < excluded_location_behavior)}}
    ELSE {}

allow_useful_locations == AllowUsefulExcluded \cup AllowUsefulMissable

\* the rule _add_allow_useful_location_rules adds: lambda item: not item.advancement
AllowUsefulRule == NotAdvancement

\* _add_item_rule with the availability test the wrong way round
_add_item_rule_Inverted(location, rule) ==
    IF _is_location_available(location_dictionary(location.name)) THEN location
    ELSE add_item_rule(location, rule)

\* _add_item_rule on the location instance of that name: nothing for a
\* location that is not being randomized
_add_item_rule(location, rule) ==
    IF ~_is_location_available(location_dictionary(location.name)) THEN location
    ELSE add_item_rule(location, rule)

\* the priority set left as it was configured
SubtractAllowUseful_Keeps(priority) == priority

\* self.options.priority_locations.value -= allow_useful_locations
SubtractAllowUseful(priority) == priority \ allow_useful_locations

\* the configured exclusions cleared whatever the policy
ClearExcludeLocations_Always(excluded) == {}

\* options.exclude_locations.value.clear() under allow_useful
ClearExcludeLocations(excluded) ==
    IF excluded_location_behavior = OptionNamed("allow_useful")
    THEN {} ELSE excluded

\* the locations once the loop over allow_useful_locations has run
AllowUsefulRulesAdded ==
    [n \in DOMAIN locations |->
        IF n \in allow_useful_locations
        THEN _add_item_rule(locations[n], AllowUsefulRule)
        ELSE locations[n]]

AddAllowUsefulLocationRules ==
    /\ pc = "set_rules"
    /\ locations' = AllowUsefulRulesAdded
    /\ priority_locations' = SubtractAllowUseful(priority_locations)
    /\ exclude_locations' = ClearExcludeLocations(exclude_locations)
    /\ pc' = "pre_fill"
    /\ last' = [NoCall EXCEPT !.op = "_add_allow_useful_location_rules",
                              !.candidates = allow_useful_locations,
                              !.locations_before = locations,
                              !.excluded_before = exclude_locations,
                              !.all_excluded_before = all_excluded_locations]
    /\ UNCHANGED <<catalog_vars, option_vars, random, rule_vars, all_excluded_locations, created_regions,
                   location_order, local_itempool, itempool, precollected, warnings,
                   next_region, next_item_id, placements>>

(***************************************************************************)
(* SekiroWorld._replace_with_filler, create_filler                         *)
(***************************************************************************)
RECURSIVE TryFillers(_, _, _)
\* the loop of _replace_with_filler from its i-th turn on, drawn being the
\* fillers drawn in the turns before: every way the loop can end, as the
\* location it leaves and the fillers it drew
TryFillers(location, drawn, i) ==
    IF i > FillerTries THEN {[location |-> location, drawn |-> drawn]}
    ELSE UNION {
            LET candidate == create_item(filler_name)
            IN  IF item_rule(location, candidate)
                THEN {[location |-> [location EXCEPT !.item = candidate],
                       drawn |-> Append(drawn, filler_name)]}
                ELSE TryFillers(location, Append(drawn, filler_name), i + 1) :
            filler_name \in get_filler_item_name}

\* the loop run on a locked location as well
_replace_with_filler_IgnoresLock(location) ==
    TryFillers(location, <<>>, 1)

_replace_with_filler(location) ==
    IF location.locked THEN {[location |-> location, drawn |-> <<>>]}
    ELSE TryFillers(location, <<>>, 1)

(***************************************************************************)
(* SekiroWorld._fill_local_item                                            *)
(***************************************************************************)
\* the inner generator without the test on conditional
PreFiltered_AllowsConditional(regions, additional_condition) ==
    {d \in UNION {Range(location_tables[regions[i]]) : i \in DOMAIN regions} :
        /\ _is_location_available(d)
        /\ ~d.missable
        /\ (~additional_condition.given \/ d.name \in additional_condition.accepts)}

\* the catalog locations the inner generator lets through
PreFiltered(regions, additional_condition) ==
    {d \in UNION {Range(location_tables[regions[i]]) : i \in DOMAIN regions} :
        /\ _is_location_available(d)
        /\ ~d.missable
        /\ ~d.conditional
        /\ (~additional_condition.given \/ d.name \in additional_condition.accepts)}

\* the test of the outer comprehension without the test for an item
\* already held
Qualifies_IgnoresItem(location, item) ==
    /\ location.name \notin all_excluded_locations
    /\ item_rule(location, item)

\* the test of the outer comprehension, on the location instance
Qualifies(location, item) ==
    /\ location.item = NoItem
    /\ location.name \notin all_excluded_locations
    /\ item_rule(location, item)

candidate_locations(item, regions, additional_condition) ==
    {d.name : d \in {e \in PreFiltered(regions, additional_condition) :
                        Qualifies(locations[e.name], item)}}

\* the location whose default item is the item, last in graph order
DefaultLocationOf_Last(item_name) ==
    LET slots == {i \in DOMAIN location_order :
                     location_dictionary(location_order[i]).default_item_name = item_name}
    IN  IF slots = {} THEN None
        ELSE location_order[CHOOSE i \in slots : \A j \in slots : j <= i]

\* the location whose default item is the item, first in graph order
DefaultLocationOf(item_name) ==
    LET i == FirstIndex(location_order,
                        {n \in Range(location_order) :
                            location_dictionary(n).default_item_name = item_name})
    IN  IF i = 0 THEN None ELSE location_order[i]

PoolIndex(name) ==
    FirstIndex(local_itempool, {it \in Range(local_itempool) : it.name = name})

FillLocalItem(name, regions, additional_condition) ==
    /\ pc = "pre_fill"
    /\ placements < MaxPlacements
    /\ IF PoolIndex(name) = 0
       THEN \* no such item in the pool: return
            UNCHANGED <<locations, local_itempool, precollected, warnings, placements, last>>
       ELSE LET item == local_itempool[PoolIndex(name)]
                candidates == candidate_locations(item, regions, additional_condition)
                called == [NoCall EXCEPT !.op = "_fill_local_item", !.name = name,
                                         !.regions = regions,
                                         !.condition = additional_condition,
                                         !.candidates = candidates,
                                         !.locations_before = locations,
                                         !.pool_before = local_itempool,
                                         !.precollected_before = precollected,
                                         !.warnings_before = warnings]
            IN  /\ local_itempool' = RemoveAt(local_itempool, PoolIndex(name))
                /\ placements' = placements + 1
                /\ IF candidates = {}
                   THEN LET target == DefaultLocationOf(item.name)
                        IN  /\ warnings' = Append(warnings, FillWarning(name))
                            /\ precollected' = Append(precollected, create_item(name))
                            /\ IF target = None
                               THEN /\ locations' = locations
                                    /\ last' = called
                               ELSE \E done \in _replace_with_filler(locations[target]) :
                                       /\ locations' =
                                            [locations EXCEPT ![target] = done.location]
                                       /\ last' = [called EXCEPT !.target = target,
                                                                 !.draws = done.drawn]
                   ELSE \E chosen \in candidates :
                            /\ locations' =
                                 [locations EXCEPT
                                     ![chosen] = place_locked_item(@, item)]
                            /\ last' = [called EXCEPT !.chosen = chosen]
                            /\ UNCHANGED <<precollected, warnings>>
    /\ UNCHANGED <<catalog_vars, option_vars, random, rule_vars, exclude_locations, priority_locations,
                   all_excluded_locations, created_regions, location_order, itempool,
                   pc, next_region, next_item_id>>

(***************************************************************************)
(* The host's fill, which runs once the worlds' own placements are done:   *)
(* any placement of a pool item at an unfilled location whose item rule    *)
(* accepts it                                                              *)
(***************************************************************************)
FillStep(location_name, k) ==
    /\ pc \in {"pre_fill", "fill"}
    /\ placements < MaxPlacements
    /\ locations[location_name].item = NoItem
    /\ ~locations[location_name].locked
    /\ item_rule(locations[location_name], itempool[k])
    /\ locations' = [locations EXCEPT ![location_name].item = itempool[k]]
    /\ itempool' = RemoveAt(itempool, k)
    /\ placements' = placements + 1
    /\ last' = [NoCall EXCEPT !.op = "fill", !.name = itempool[k].name,
                              !.chosen = location_name,
                              !.locations_before = locations]
    /\ pc' = "fill"
    /\ UNCHANGED <<catalog_vars, option_vars, random, rule_vars, exclude_locations, priority_locations,
                   all_excluded_locations, created_regions, location_order,
                   local_itempool, precollected, warnings, next_region, next_item_id>>

(***************************************************************************)
(* Generation                                                              *)
(***************************************************************************)
Next ==
    \/ GenerateEarly
    \/ CreateRegion
    \/ CreateItems
    \/ AddAllowUsefulLocationRules
    \/ \E name \in ItemNames, regions \in RegionLists, condition \in Conditions :
          FillLocalItem(name, regions, condition)
    \/ \E location_name \in DOMAIN locations, k \in DOMAIN itempool :
          FillStep(location_name, k)

Spec == Init /\ [][Next]_vars


(***************************************************************************)
(* The resolver by itself: _is_location_available on any location          *)
(* definition, under any options and any exclusion set                     *)
(***************************************************************************)
\* the SekiroLocationData the resolver is asked about
ResolverInputs ==
    {SekiroLocationData(name, default_item_name, missable, FALSE) :
        name \in {"L1", "L2"}, default_item_name \in {None, "Key"},
        missable \in BOOLEAN}

InitResolve ==
    /\ random = 0
    /\ item_dictionary = ItemCatalog
    /\ InitWorld
    /\ worlds = OneWorld
    /\ exclude_locations \in SUBSET location_name_to_id
    /\ all_excluded_locations = exclude_locations
    /\ priority_locations = {}
    /\ pc = "resolve"

IsLocationAvailable(data) ==
    /\ pc = "resolve"
    /\ last' = [NoCall EXCEPT !.op = "_is_location_available", !.data = data,
                              !.result = _is_location_available(data)]
    /\ UNCHANGED <<catalog_vars, option_vars, random, rule_vars, exclude_locations, priority_locations,
                   all_excluded_locations, created_regions, locations, location_order,
                   local_itempool, itempool, precollected, warnings, pc, next_region,
                   next_item_id, placements>>

NextResolve == \E data \in ResolverInputs : IsLocationAvailable(data)

SpecResolve == InitResolve /\ [][NextResolve]_vars

(***************************************************************************)
(* The injector by itself: _create_injectable_items on any deficit, over   *)
(* catalogs with any of the unique items flagged inject                    *)
(***************************************************************************)
InitInject ==
    /\ random = 0
    /\ item_dictionary \in InjectCatalogs
    /\ InitWorld
    /\ worlds = OneWorld
    /\ exclude_locations = {}
    /\ all_excluded_locations = {}
    /\ priority_locations = {}
    /\ pc = "inject"

CreateInjectableItems(num_required_extra_items) ==
    /\ pc = "inject"
    /\ \E injected \in _create_injectable_items(num_required_extra_items) :
          /\ precollected' = precollected \o injected.granted
          /\ warnings' = warnings \o
                [i \in DOMAIN injected.granted |-> InjectWarning(injected.granted[i].name)]
          /\ last' = [NoCall EXCEPT !.op = "_create_injectable_items",
                                    !.num = num_required_extra_items,
                                    !.items = injected.items,
                                    !.precollected_before = precollected,
                                    !.warnings_before = warnings]
    /\ pc' = "injected"
    /\ UNCHANGED <<catalog_vars, option_vars, random, rule_vars, exclude_locations, priority_locations,
                   all_excluded_locations, created_regions, locations, location_order,
                   local_itempool, itempool, next_region, next_item_id, placements>>

NextInject == \E num \in 0..MaxDeficit : CreateInjectableItems(num)

SpecInject == InitInject /\ [][NextInject]_vars


(***************************************************************************)
(* The rule engine by itself: any calls of _add_entrance_rule,             *)
(* _add_location_rule and _add_item_rule on the graph create_regions built *)
(***************************************************************************)
InitRules ==
    /\ random = 0
    /\ item_dictionary = ItemCatalog
    /\ InitWorld
    /\ worlds = OneWorld
    /\ exclude_locations \in SUBSET {"L1", "L2"}
    /\ priority_locations = {}
    /\ all_excluded_locations = {}
    /\ pc = "generate_early"

\* one entry of rules_added
AddedRule(kind, name, requires, item_rule_added) ==
    [kind |-> kind, name |-> name, requires |-> requires, item_rule |-> item_rule_added]

RuleCall(op) ==
    [NoCall EXCEPT !.op = op, !.locations_before = locations,
                   !.entrances_before = entrances]

\* the method may be called while create_regions has not made every region
AddEntranceRule(region, rule) ==
    /\ pc \in {"create_regions", "create_items"}
    /\ Len(rules_added) < MaxRules
    /\ LET done == _add_entrance_rule(region, rule)
       IN  /\ entrances' = done.spots
           /\ rules_added' = rules_added \o
                 [i \in DOMAIN done.attached |->
                     AddedRule("entrance", done.attached[i],
                               AsCollectionRule(rule).requires, None)]
           /\ pc' = IF done.error # None THEN "aborted" ELSE pc
           /\ last' = [RuleCall("_add_entrance_rule") EXCEPT
                          !.name = region, !.rule = rule, !.error = done.error]
    /\ UNCHANGED <<catalog_vars, option_vars, random, exclude_locations, priority_locations,
                   all_excluded_locations, created_regions, locations, location_order,
                   local_itempool, itempool, precollected, warnings, next_region,
                   next_item_id, placements>>

AddLocationRule(location, rule) ==
    /\ pc = "create_items"
    /\ Len(rules_added) + Len(location) <= MaxRules
    /\ LET done == _add_location_rule(location, rule)
       IN  /\ locations' = done.spots
           /\ rules_added' = rules_added \o
                 [i \in DOMAIN done.attached |->
                     AddedRule("location", done.attached[i],
                               AsCollectionRule(rule).requires, None)]
           /\ pc' = IF done.error # None THEN "aborted" ELSE pc
           /\ last' = [RuleCall("_add_location_rule") EXCEPT
                          !.names = location, !.rule = rule, !.error = done.error]
    /\ UNCHANGED <<catalog_vars, option_vars, random, exclude_locations, priority_locations,
                   all_excluded_locations, created_regions, entrances, location_order,
                   local_itempool, itempool, precollected, warnings, next_region,
                   next_item_id, placements>>

AddItemRule(location, rule) ==
    /\ pc = "create_items"
    /\ Len(rules_added) < MaxRules
    /\ locations' = [locations EXCEPT ![location] = _add_item_rule(@, rule)]
    /\ rules_added' =
          IF _is_location_available(location_dictionary(location))
          THEN Append(rules_added, AddedRule("item", location, {}, rule))
          ELSE rules_added
    /\ last' = [RuleCall("_add_item_rule") EXCEPT !.name = location, !.item_rule = rule]
    /\ UNCHANGED <<catalog_vars, option_vars, random, exclude_locations, priority_locations,
                   all_excluded_locations, created_regions, entrances, location_order,
                   local_itempool, itempool, precollected, warnings, pc, next_region,
                   next_item_id, placements>>

NextRules ==
    \/ GenerateEarly
    \/ CreateRegion
    \/ \E region \in RegionArguments, rule \in EntranceRuleArguments :
          AddEntranceRule(region, rule)
    \/ \E location \in LocationArguments, rule \in RuleArguments :
          AddLocationRule(location, rule)
    \/ \E location \in ItemRuleLocations, rule \in ItemRules :
          AddItemRule(location, rule)

SpecRules == InitRules /\ [][NextRules]_vars

(***************************************************************************)
(* Generation on a seeded generator: create_items and _fill_local_item     *)
(* with every sample and choice drawn from self.random, each operation     *)
(* given as the set of outcomes it can have from the state it is called in *)
(***************************************************************************)
\* the catalogs run on the seeded generator: one injectable, or one
\* mandatory injectable and two optional ones
SeededCatalogs ==
    {catalog \in InjectCatalogs :
        {catalog[i].name : i \in {j \in DOMAIN catalog : catalog[j].inject}}
            \in {{"Bell"}, {"Bell", "Memory", "Scroll"}}}

\* filler_item_names, the list
filler_item_list ==
    LET fillers == SeqFilter(item_dictionary, {d \in Range(item_dictionary) : d.filler})
    IN  [i \in DOMAIN fillers |-> fillers[i].name]

\* _create_injectable_items on the seeded generator: the mandatory sample
\* is drawn first, the optional one after it
SeededInjectables(num_required_extra_items, x) ==
    LET number_to_inject == Min(num_required_extra_items, Len(all_injectable_items))
    IN  UNION {
          {[items |-> [i \in DOMAIN (m.value \o o.value) |->
                          SekiroItem((m.value \o o.value)[i])],
            granted |-> [i \in DOMAIN ForceGranted(number_to_inject, m.value \o o.value) |->
                          SekiroItem(ForceGranted(number_to_inject, m.value \o o.value)[i])],
            random |-> o.random] :
              o \in random_sample(injectable_optional,
                                  OptionalSampleSize(number_to_inject), m.random)} :
          m \in random_sample(injectable_mandatory,
                              MandatorySampleSize(number_to_inject), x)}

RECURSIVE SeededFillers(_, _, _)
\* count calls of get_filler_item_name, one after the other
SeededFillers(count, x, drawn) ==
    IF count = 0 THEN {[value |-> drawn, random |-> x]}
    ELSE UNION {SeededFillers(count - 1, c.random, Append(drawn, c.value)) :
                   c \in random_choice(filler_item_list, x)}

\* create_items past the gathering of the defaults: what it appends to the
\* pool, what it pushes to the starting inventory, the generator after it
SeededPoolTail(extra, x) ==
    UNION {
      {[items |-> injected.items,
        tail |-> injected.items \o
                    [i \in DOMAIN fillers.value |-> create_item(fillers.value[i])],
        granted |-> injected.granted,
        random |-> fillers.random] :
          fillers \in SeededFillers(extra - Len(injected.items), injected.random, <<>>)} :
      injected \in SeededInjectables(extra, x)}

CreateItemsSeeded ==
    /\ pc = "create_items"
    /\ LET gathered == GatherDefaults
       IN  IF gathered.raised
           THEN /\ pc' = "aborted"
                /\ local_itempool' = gathered.pool
                /\ last' = [NoCall EXCEPT !.op = "create_items"]
                /\ UNCHANGED <<itempool, precollected, warnings, random>>
           ELSE \E done \in SeededPoolTail(gathered.extra, random) :
                    /\ local_itempool' = gathered.pool \o done.tail
                    /\ itempool' = itempool \o local_itempool'
                    /\ precollected' = precollected \o done.granted
                    /\ warnings' = warnings \o
                          [i \in DOMAIN done.granted |->
                              InjectWarning(done.granted[i].name)]
                    /\ random' = done.random
                    /\ pc' = "set_rules"
                    /\ last' = [NoCall EXCEPT !.op = "create_items",
                                              !.num = gathered.extra,
                                              !.items = done.items,
                                              !.precollected_before = precollected,
                                              !.warnings_before = warnings]
    /\ UNCHANGED <<catalog_vars, option_vars, rule_vars, exclude_locations,
                   priority_locations, all_excluded_locations, created_regions,
                   locations, location_order, next_region, next_item_id, placements>>

RECURSIVE CandidateListFrom(_, _, _, _)
\* candidate_locations as the list it is: the locations of the regions in
\* the order of the regions argument, each table in catalog order
CandidateListFrom(item, regions, additional_condition, i) ==
    IF i > Len(regions) THEN <<>>
    ELSE LET kept == SeqFilter(location_tables[regions[i]],
                        {d \in PreFiltered(regions, additional_condition) :
                            Qualifies(locations[d.name], item)})
         IN  [j \in DOMAIN kept |-> kept[j].name]
             \o CandidateListFrom(item, regions, additional_condition, i + 1)

candidate_list(item, regions, additional_condition) ==
    CandidateListFrom(item, regions, additional_condition, 1)

RECURSIVE TrySeededFillers(_, _, _)
\* the loop of _replace_with_filler from its i-th turn on, on the seeded
\* generator
TrySeededFillers(location, x, i) ==
    IF i > FillerTries THEN {[location |-> location, random |-> x]}
    ELSE UNION {
            IF item_rule(location, create_item(c.value))
            THEN {[location |-> [location EXCEPT !.item = create_item(c.value)],
                   random |-> c.random]}
            ELSE TrySeededFillers(location, c.random, i + 1) :
            c \in random_choice(filler_item_list, x)}

\* _fill_local_item on the seeded generator, for an item that is in the
\* pool: the locations it leaves, the location it chose if any, the
\* generator after it
SeededFill(name, regions, additional_condition) ==
    LET item == local_itempool[PoolIndex(name)]
        candidates == candidate_list(item, regions, additional_condition)
        target == DefaultLocationOf(item.name)
    IN  IF candidates # <<>>
        THEN {[locations |-> [locations EXCEPT ![c.value] = place_locked_item(@, item)],
               chosen |-> c.value, target |-> None, random |-> c.random] :
                 c \in random_choice(candidates, random)}
        ELSE IF target = None \/ locations[target].locked
        THEN {[locations |-> locations, chosen |-> None, target |-> target,
               random |-> random]}
        ELSE {[locations |-> [locations EXCEPT ![target] = done.location],
               chosen |-> None, target |-> target, random |-> done.random] :
                 done \in TrySeededFillers(locations[target], random, 1)}

FillLocalItemSeeded(name, regions, additional_condition) ==
    /\ pc = "pre_fill"
    /\ placements < MaxPlacements
    /\ PoolIndex(name) # 0
    /\ \E done \in SeededFill(name, regions, additional_condition) :
          /\ locations' = done.locations
          /\ random' = done.random
          /\ local_itempool' = RemoveAt(local_itempool, PoolIndex(name))
          /\ placements' = placements + 1
          /\ precollected' = IF done.chosen = None
                             THEN Append(precollected, create_item(name))
                             ELSE precollected
          /\ warnings' = IF done.chosen = None
                         THEN Append(warnings, FillWarning(name)) ELSE warnings
          /\ last' = [NoCall EXCEPT !.op = "_fill_local_item", !.name = name,
                                    !.regions = regions,
                                    !.condition = additional_condition,
                                    !.candidates =
                                        Range(candidate_list(local_itempool[PoolIndex(name)],
                                                             regions, additional_condition)),
                                    !.chosen = done.chosen,
                                    !.target = done.target,
                                    !.locations_before = locations,
                                    !.pool_before = local_itempool,
                                    !.precollected_before = precollected,
                                    !.warnings_before = warnings]
    /\ UNCHANGED <<catalog_vars, option_vars, rule_vars, exclude_locations,
                   priority_locations, all_excluded_locations, created_regions,
                   location_order, itempool, pc, next_region, next_item_id>>

InitSeeded ==
    /\ random \in Seeds
    /\ item_dictionary \in SeededCatalogs
    /\ InitWorld
    /\ worlds = OneWorld
    /\ exclude_locations \in SUBSET {"L1", "L2"}
    /\ priority_locations = {}
    /\ all_excluded_locations = {}
    /\ pc = "generate_early"

NextSeeded ==
    \/ GenerateEarly
    \/ CreateRegion
    \/ CreateItemsSeeded
    \/ AddAllowUsefulLocationRules
    \/ \E name \in ItemNames, regions \in RegionLists, additional_condition \in Conditions :
          FillLocalItemSeeded(name, regions, additional_condition)

SpecSeeded == InitSeeded /\ [][NextSeeded]_vars

(***************************************************************************)
(* SekiroWorld.set_rules as a whole: _add_allow_useful_location_rules,     *)
(* then the entrance rules and the location rules in the order of the text *)
(***************************************************************************)
\* the name set_rules gives for the goal location: it is written with a
\* colon where the table of Locations.py writes the name with a dash, and
\* is no key of location_dictionary
GoalNameInRules == "R1: L1"

\* the calls of set_rules after _add_allow_useful_location_rules: entrance
\* rules by bare name and by lambda, a location rule for a location of the
\* catalog, a location rule for the goal
SetRulesCalls ==
    << [op |-> "_add_entrance_rule", region |-> "R2", names |-> <<>>,
        rule |-> StrRule("Key")],
       [op |-> "_add_entrance_rule", region |-> "R2", names |-> <<>>,
        rule |-> LambdaRule({"Bell"})],
       [op |-> "_add_location_rule", region |-> None, names |-> <<"L4">>,
        rule |-> StrRule("Bell")],
       [op |-> "_add_location_rule", region |-> None, names |-> <<GoalNameInRules>>,
        rule |-> StrRule("Key")] >>

RECURSIVE SetRulesFrom(_, _)
\* the calls from the i-th on; acc carries the locations and entrances as
\* the calls before left them, and the error that ended the method
SetRulesFrom(i, acc) ==
    IF i > Len(SetRulesCalls) \/ acc.error # None THEN acc
    ELSE LET call == SetRulesCalls[i]
         IN  IF call.op = "_add_entrance_rule"
             THEN LET done == AddEntranceRuleTo(acc.entrances, call.region, call.rule)
                  IN  SetRulesFrom(i + 1,
                         [acc EXCEPT !.entrances = done.spots, !.error = done.error,
                                     !.calls = IF done.error = None THEN i ELSE @])
             ELSE LET done == AddLocationRuleLoop(call.names, 1, call.rule,
                                 RuleOutcome(acc.locations, None, <<>>))
                  IN  SetRulesFrom(i + 1,
                         [acc EXCEPT !.locations = done.spots, !.error = done.error,
                                     !.calls = IF done.error = None THEN i ELSE @])

SetRules ==
    /\ pc = "set_rules"
    /\ LET done == SetRulesFrom(1, [locations |-> AllowUsefulRulesAdded,
                                    entrances |-> entrances, error |-> None,
                                    calls |-> 0])
       IN  /\ locations' = done.locations
           /\ entrances' = done.entrances
           /\ pc' = IF done.error # None THEN "aborted" ELSE "pre_fill"
           /\ last' = [NoCall EXCEPT !.op = "set_rules", !.error = done.error,
                                     !.num = done.calls,
                                     !.locations_before = locations,
                                     !.entrances_before = entrances]
    /\ priority_locations' = SubtractAllowUseful(priority_locations)
    /\ exclude_locations' = ClearExcludeLocations(exclude_locations)
    /\ UNCHANGED <<catalog_vars, option_vars, random, rules_added, all_excluded_locations,
                   created_regions, location_order, local_itempool, itempool, precollected,
                   warnings, next_region, next_item_id, placements>>

NextSetRules == GenerateEarly \/ CreateRegion \/ CreateItems \/ SetRules

SpecSetRules == Init /\ [][NextSetRules]_vars

(***************************************************************************)
(* Two worlds in one process.  The variables of the module hold the world  *)
(* whose step the host runs; worlds.other holds the world that waits, and  *)
(* worlds.cls the objects the class attributes of SekiroWorld refer to.    *)
(* An attribute read on a world that has not assigned it is the class      *)
(* attribute, and a change made in place to such an attribute changes the  *)
(* object of the class.                                                    *)
(***************************************************************************)
\* the attribute was assigned on it without any assignment in the instance
InstanceBound_Never(attribute, step) == FALSE

\* whether the instance has assigned the attribute once its world is at the
\* step: __init__ assigns all_excluded_locations, create_items assigns
\* local_itempool in its first statement
InstanceBound(attribute, step) ==
    IF attribute = "all_excluded_locations" THEN TRUE
    ELSE step \notin {"generate_early", "create_regions", "create_items"}

\* the state that belongs to the world the host is running
RunningWorld(id) ==
    [id |-> id,
     excluded_location_behavior |-> excluded_location_behavior,
     missable_location_behavior |-> missable_location_behavior,
     exclude_locations |-> exclude_locations,
     priority_locations |-> priority_locations,
     all_excluded_locations |-> all_excluded_locations,
     created_regions |-> created_regions,
     locations |-> locations,
     location_order |-> location_order,
     local_itempool |-> local_itempool,
     precollected |-> precollected,
     warnings |-> warnings,
     pc |-> pc,
     next_region |-> next_region,
     placements |-> placements,
     entrances |-> entrances,
     rules_added |-> rules_added,
     random |-> random,
     last |-> last]

\* the objects of the class as the running world leaves them: what it
\* changed in place on an attribute it has not assigned is changed there
ClassObjects ==
    [all_excluded_locations |->
        IF InstanceBound("all_excluded_locations", pc)
        THEN worlds.cls.all_excluded_locations ELSE all_excluded_locations,
     local_itempool |->
        IF InstanceBound("local_itempool", pc)
        THEN worlds.cls.local_itempool ELSE local_itempool]

\* self.all_excluded_locations and self.local_itempool read on the world
\* that waits
OtherExcluded ==
    IF InstanceBound("all_excluded_locations", worlds.other.pc)
    THEN worlds.other.all_excluded_locations
    ELSE ClassObjects.all_excluded_locations

OtherLocalPool ==
    IF InstanceBound("local_itempool", worlds.other.pc)
    THEN worlds.other.local_itempool
    ELSE ClassObjects.local_itempool

\* options of the second world and of the first
SecondWorldOptions == {<<OptionNamed("do_not_randomize"), OptionNamed("do_not_randomize")>>,
                       <<OptionNamed("allow_useful"), OptionNamed("forbid_useful")>>}

InitWorlds ==
    /\ random = 0
    /\ item_dictionary = ItemCatalog
    /\ InitWorld
    /\ exclude_locations \in {{}, {"L1"}}
    /\ priority_locations = {}
    /\ all_excluded_locations = {}
    /\ pc = "generate_early"
    /\ \E options \in SecondWorldOptions :
          worlds = [other |-> [RunningWorld(2) EXCEPT
                                 !.excluded_location_behavior = options[1],
                                 !.missable_location_behavior = options[2],
                                 !.exclude_locations = {"L4"}],
                    cls |-> ClassAttributes]

\* the host goes on with a step of the other world
SwitchWorld ==
    /\ worlds.other.id # 0
    /\ LET resumed == worlds.other
           cls == ClassObjects
       IN  /\ worlds' = [other |-> RunningWorld(3 - resumed.id), cls |-> cls]
           /\ excluded_location_behavior' = resumed.excluded_location_behavior
           /\ missable_location_behavior' = resumed.missable_location_behavior
           /\ exclude_locations' = resumed.exclude_locations
           /\ priority_locations' = resumed.priority_locations
           /\ all_excluded_locations' =
                 IF InstanceBound("all_excluded_locations", resumed.pc)
                 THEN resumed.all_excluded_locations ELSE cls.all_excluded_locations
           /\ created_regions' = resumed.created_regions
           /\ locations' = resumed.locations
           /\ location_order' = resumed.location_order
           /\ local_itempool' =
                 IF InstanceBound("local_itempool", resumed.pc)
                 THEN resumed.local_itempool ELSE cls.local_itempool
           /\ precollected' = resumed.precollected
           /\ warnings' = resumed.warnings
           /\ pc' = resumed.pc
           /\ next_region' = resumed.next_region
           /\ placements' = resumed.placements
           /\ entrances' = resumed.entrances
           /\ rules_added' = resumed.rules_added
           /\ random' = resumed.random
           /\ last' = resumed.last
    /\ UNCHANGED <<item_dictionary, location_tables, next_location_id, next_item_id,
                   itempool>>

\* _fill_local_item called on a world before its create_items: the pool it
\* searches is the list of the class
FillLocalItemEarly(name) ==
    /\ pc \in {"generate_early", "create_regions", "create_items"}
    /\ PoolIndex(name) = 0
    /\ last' = [NoCall EXCEPT !.op = "_fill_local_item", !.name = name,
                              !.pool_before = local_itempool]
    /\ UNCHANGED <<catalog_vars, option_vars, random, rule_vars, exclude_locations,
                   priority_locations, all_excluded_locations, created_regions, locations,
                   location_order, local_itempool, itempool, precollected, warnings, pc,
                   next_region, next_item_id, placements>>

NextWorlds ==
    \/ GenerateEarly
    \/ CreateRegion
    \/ CreateItems
    \/ AddAllowUsefulLocationRules
    \/ FillLocalItemEarly("Key")
    \/ FillLocalItem("Key", <<"R1", "R2">>, NoCondition)
    \/ SwitchWorld

SpecWorlds == InitWorlds /\ [][NextWorlds]_vars

(***************************************************************************)
(* create_items on a graph that does not agree with the resolver: a        *)
(* location of the catalog attached open although _is_location_available   *)
(* reports it as not randomized                                            *)
(***************************************************************************)
AddUnavailableLocation(name) ==
    /\ pc = "create_items"
    /\ name \in DOMAIN locations
    /\ locations[name].locked
    /\ ~_is_location_available(location_dictionary(name))
    /\ locations' = [locations EXCEPT ![name] =
                        SekiroLocation(location_dictionary(name), @.parent, FALSE)]
    /\ last' = [NoCall EXCEPT !.op = "SekiroLocation", !.name = name,
                              !.locations_before = locations]
    /\ UNCHANGED <<catalog_vars, option_vars, random, rule_vars, exclude_locations,
                   priority_locations, all_excluded_locations, created_regions,
                   location_order, local_itempool, itempool, precollected, warnings, pc,
                   next_region, next_item_id, placements>>

NextMismatch ==
    \/ GenerateEarly
    \/ CreateRegion
    \/ \E name \in LocationNames : AddUnavailableLocation(name)
    \/ CreateItems

SpecMismatch == Init /\ [][NextMismatch]_vars

(***************************************************************************)
(* The graph built a second time: the create_region calls of               *)
(* create_regions run again, in the same order, on the state the first     *)
(* build left                                                              *)
(***************************************************************************)
RECURSIVE CreateRegionsFrom(_, _)
\* the create_region calls from the i-th region of the list on
CreateRegionsFrom(i, acc) ==
    IF i > Len(RegionOrder) \/ acc.key_error THEN acc
    ELSE CreateRegionsFrom(i + 1,
            CreateRegionLoop(RegionOrder[i], TableOf(RegionOrder[i]), 1, acc))

RebuildRegions ==
    /\ pc = "create_items"
    /\ LET done == CreateRegionsFrom(1,
                       [new |-> <<>>, excluded |-> exclude_locations,
                        all_excluded |-> all_excluded_locations,
                        item_id |-> next_item_id, key_error |-> FALSE])
       IN  /\ exclude_locations' = done.excluded
           /\ all_excluded_locations' = done.all_excluded
           /\ next_item_id' = done.item_id
           /\ locations' =
                 [n \in {l.name : l \in Range(done.new)} |->
                     CHOOSE l \in Range(done.new) : l.name = n]
           /\ location_order' = [i \in DOMAIN done.new |-> done.new[i].name]
           /\ pc' = IF done.key_error THEN "aborted" ELSE "rebuilt"
           /\ last' = [NoCall EXCEPT !.op = "create_regions",
                                     !.locations_before = locations,
                                     !.excluded_before = exclude_locations,
                                     !.all_excluded_before = all_excluded_locations]
    /\ UNCHANGED <<catalog_vars, option_vars, random, rule_vars, priority_locations,
                   created_regions, local_itempool, itempool, precollected, warnings,
                   next_region, placements>>

NextRebuild == GenerateEarly \/ CreateRegion \/ RebuildRegions

SpecRebuild == Init /\ [][NextRebuild]_vars

(***************************************************************************)
(* Import of the catalog modules: every definition is constructed in the   *)
(* order the module text lists it, __post_init__ running on each; then the *)
(* same text imported again by a second process                            *)
(***************************************************************************)
\* names of the definitions in the order the module text lists them
ItemNamesListed == <<"Key", "Memory", "Sugar">>
LocationNamesListed ==
    [r \in Range(TableOrder) |-> IF r = "R1" THEN <<"L1", "L2">> ELSE <<"L3", "L4">>]

\* the item counter left where it was
NextItemId_Stays(counter) == counter

\* SekiroItemData.__item_id += 1
NextItemId(counter) == counter + 1

\* SekiroLocationData.__location_id += 1, for a location that is no event
NextLocationId(data, counter) == IF is_event(data) THEN counter ELSE counter + 1

\* every table of a catalog, one after the other in dict order
FlatTables(tables) == tables[TableOrder[1]] \o tables[TableOrder[2]]

InitImport ==
    /\ random = 0
    /\ item_dictionary = <<>>
    /\ location_tables = [r \in Range(TableOrder) |-> <<>>]
    /\ excluded_location_behavior = OptionNamed("do_not_randomize")
    /\ missable_location_behavior = OptionNamed("do_not_randomize")
    /\ created_regions = {}
    /\ locations = <<>>
    /\ location_order = <<>>
    /\ local_itempool = <<>>
    /\ itempool = <<>>
    /\ precollected = <<>>
    /\ warnings = <<>>
    /\ next_region = 1
    /\ next_item_id = item_id_start
    /\ next_location_id = location_id_start
    /\ worlds = OneWorld
    /\ placements = 0
    /\ entrances = <<>>
    /\ rules_added = <<>>
    /\ last = NoCall
    /\ exclude_locations = {}
    /\ all_excluded_locations = {}
    /\ priority_locations = {}
    /\ pc = "import"

\* what an import leaves alone
import_frame ==
    <<option_vars, exclude_locations, priority_locations, all_excluded_locations,
      created_regions, locations, location_order, local_itempool, itempool,
      precollected, warnings, next_region, placements, entrances, rules_added, random,
      worlds>>

\* one more SekiroItemData(...) of the list in Items.py
ConstructItem(category, classification) ==
    /\ pc = "import"
    /\ Len(item_dictionary) < Len(ItemNamesListed)
    /\ LET raw == SekiroItemData(ItemNamesListed[Len(item_dictionary) + 1], category,
                                 classification, FALSE, FALSE, FALSE)
       IN  item_dictionary' =
              Append(item_dictionary, ItemPostInit(<<raw>>, next_item_id)[1])
    /\ next_item_id' = NextItemId(next_item_id)
    /\ UNCHANGED <<location_tables, next_location_id, pc, last, import_frame>>

\* one more SekiroLocationData(...) of a table in Locations.py, the tables
\* being built one after the other
ConstructLocation(region, as_event) ==
    /\ pc = "import"
    /\ Len(location_tables[region]) < Len(LocationNamesListed[region])
    /\ region = TableOrder[1] => location_tables[TableOrder[2]] = <<>>
    /\ LET raw == SekiroLocationData(
                      LocationNamesListed[region][Len(location_tables[region]) + 1],
                      IF as_event THEN None ELSE "Key", FALSE, FALSE)
       IN  /\ location_tables' =
                 [location_tables EXCEPT ![region] =
                     Append(@, LocationPostInit(<<raw>>, next_location_id)[1])]
           /\ next_location_id' = NextLocationId(raw, next_location_id)
    /\ UNCHANGED <<item_dictionary, next_item_id, pc, last, import_frame>>

\* the import is over and generation starts
FinishImport ==
    /\ pc = "import"
    /\ pc' = "generate"
    /\ UNCHANGED <<item_dictionary, location_tables, next_item_id, next_location_id,
                   last, import_frame>>

\* SekiroItem.event during generation: one more SekiroItemData is built
ConstructEvent ==
    /\ pc = "generate"
    /\ next_item_id < item_id_start + Len(item_dictionary) + MaxEvents
    /\ next_item_id' = NextItemId(next_item_id)
    /\ last' = [NoCall EXCEPT !.op = "event", !.items = <<event("E1")>>]
    /\ UNCHANGED <<item_dictionary, location_tables, next_location_id, pc, import_frame>>

\* a second process imports the modules: the class bodies run again and
\* the counters start where the class text puts them
Reimport ==
    /\ pc = "generate"
    /\ pc' = "reimport"
    /\ item_dictionary' = <<>>
    /\ location_tables' = [r \in Range(TableOrder) |-> <<>>]
    /\ next_item_id' = item_id_start
    /\ next_location_id' = location_id_start
    /\ last' = [NoCall EXCEPT !.op = "import", !.items_first = item_dictionary,
                              !.tables_first = location_tables,
                              !.num = next_item_id - item_id_start]
    /\ UNCHANGED import_frame

\* the constructor call a definition of the first import came from
AsListed(data) == [data EXCEPT !.ap_code = NoCode]

ReconstructItem ==
    /\ pc = "reimport"
    /\ Len(item_dictionary) < Len(last.items_first)
    /\ LET raw == AsListed(last.items_first[Len(item_dictionary) + 1])
       IN  item_dictionary' =
              Append(item_dictionary, ItemPostInit(<<raw>>, next_item_id)[1])
    /\ next_item_id' = NextItemId(next_item_id)
    /\ UNCHANGED <<location_tables, next_location_id, pc, last, import_frame>>

ReconstructLocation(region) ==
    /\ pc = "reimport"
    /\ Len(location_tables[region]) < Len(last.tables_first[region])
    /\ region = TableOrder[2] =>
          Len(location_tables[TableOrder[1]]) = Len(last.tables_first[TableOrder[1]])
    /\ LET raw == AsListed(last.tables_first[region][Len(location_tables[region]) + 1])
       IN  /\ location_tables' =
                 [location_tables EXCEPT ![region] =
                     Append(@, LocationPostInit(<<raw>>, next_location_id)[1])]
           /\ next_location_id' = NextLocationId(raw, next_location_id)
    /\ UNCHANGED <<item_dictionary, next_item_id, pc, last, import_frame>>

NextImport ==
    \/ \E category \in {UNIQUE, MISC}, classification \in {progression, useful, filler} :
          ConstructItem(category, classification)
    \/ \E region \in Range(TableOrder), as_event \in BOOLEAN :
          ConstructLocation(region, as_event)
    \/ FinishImport
    \/ ConstructEvent
    \/ Reimport
    \/ ReconstructItem
    \/ \E region \in Range(TableOrder) : ReconstructLocation(region)

SpecImport == InitImport /\ [][NextImport]_vars

(***************************************************************************)
(* Claims                                                                  *)
(***************************************************************************)

\* C1: _is_location_available returns true exactly when the location is not
\* an event, is not (excluded while excluded_location_behavior is
\* do_not_randomize) and is not (missable while missable_location_behavior
\* is do_not_randomize).
C1_AvailableIff ==
    last.op = "_is_location_available" =>
        (last.result <=>
            /\ last.data.default_item_name # None
            /\ ~(/\ excluded_location_behavior = option_do_not_randomize
                 /\ last.data.name \in all_excluded_locations)
            /\ ~(/\ missable_location_behavior = option_do_not_randomize
                 /\ last.data.missable))

\* C1 witness: the resolver turned down a missable location that is neither
\* an event nor excluded.
C1_Witness ==
    /\ last.op = "_is_location_available"
    /\ ~last.result
    /\ last.data.default_item_name # None
    /\ last.data.missable
    /\ last.data.name \notin all_excluded_locations

\* whether create_region found the location available: the exclusion set
\* the call started from decides it, the loop only drops names of locations
\* it has already been through
AvailableAtBuild(data) == IsAvailableIn(data, last.all_excluded_before)

\* a location as create_region leaves a locked one
BuiltLocked(data) ==
    LET location == locations[data.name]
    IN  /\ ~AvailableAtBuild(data)
        /\ location.locked
        /\ location.address = NoCode
        /\ location.item.code = NoCode
        /\ IF data.default_item_name # None
           THEN /\ location.item.name = data.default_item_name
                /\ location.item.classification =
                      ItemNamed(data.default_item_name).classification
           ELSE /\ location.item.name = data.name
                /\ location.item.classification = progression

\* a location as create_region leaves an open one
BuiltOpen(data) ==
    LET location == locations[data.name]
    IN  /\ AvailableAtBuild(data)
        /\ ~location.locked
        /\ location.item = NoItem

\* C2: after create_region every location of the region is attached and is
\* either locked (unavailable at build time, holding its default item or an
\* event marker, without address or item code) or open (available at build
\* time, holding no item), never both and never neither.
C2_LockedOrOpen ==
    last.op = "create_region" /\ pc # "aborted" =>
        \A data \in Range(TableOf(last.name)) :
            /\ data.name \in DOMAIN locations
            /\ locations[data.name].parent = last.name
            /\ BuiltLocked(data) # BuiltOpen(data)

\* C2 witness: region R1 built with an event, a fixed default item and an
\* open location.
C2_Witness ==
    /\ last.op = "create_region"
    /\ last.name = "R1"
    /\ BuiltLocked(location_dictionary("E1"))
    /\ BuiltLocked(location_dictionary("L2"))
    /\ BuiltOpen(location_dictionary("L1"))

\* the unavailable locations of the region just built whose name was in the
\* exclusion set when the call started
ConsumedExclusions ==
    {data \in Range(TableOf(last.name)) :
        /\ ~AvailableAtBuild(data)
        /\ data.name \in last.all_excluded_before}

\* C3 as stated: an unavailable location's name is removed from
\* all_excluded_locations unless the missability policy is stricter than the
\* exclusion policy.
C3_Original ==
    last.op = "create_region" =>
        \A data \in ConsumedExclusions :
            ~(missable_location_behavior > excluded_location_behavior)
                => data.name \notin all_excluded_locations

\* C3 amended: the name is removed from all_excluded_locations exactly when
\* the exclusion policy is not stricter than the missability policy
\* (missable_location_behavior >= excluded_location_behavior), and it leaves
\* the configured set either way; with exclusion do_not_randomize and
\* missable allow_useful an excluded missable location is built fixed and
\* stays in all_excluded_locations.
C3_Amended ==
    last.op = "create_region" =>
        \A data \in ConsumedExclusions :
            /\ data.name \in last.excluded_before
            /\ data.name \notin exclude_locations
            /\ locations[data.name].locked
            /\ (data.name \notin all_excluded_locations
                  <=> missable_location_behavior >= excluded_location_behavior)

\* C3 witness: exclusion do_not_randomize, missable allow_useful, L2 both
\* excluded and missable: built fixed, and still in all_excluded_locations.
C3_Witness ==
    /\ last.op = "create_region"
    /\ last.name = "R1"
    /\ excluded_location_behavior = option_do_not_randomize
    /\ missable_location_behavior = option_allow_useful
    /\ location_dictionary("L2") \in ConsumedExclusions
    /\ locations["L2"].locked
    /\ "L2" \in all_excluded_locations
    /\ "L2" \notin exclude_locations

\* a location under allow_useful on the exclusion axis / on the missable axis
UnderExcludedAllowUseful(name) ==
    /\ name \in all_excluded_locations
    /\ excluded_location_behavior = option_allow_useful

UnderMissableAllowUseful(name) ==
    /\ location_dictionary(name).missable
    /\ missable_location_behavior = option_allow_useful

\* the other axis governs the location too, with a stricter setting
OtherAxisStricter(name) ==
    \/ /\ UnderExcludedAllowUseful(name)
       /\ location_dictionary(name).missable
       /\ missable_location_behavior > excluded_location_behavior
    \/ /\ UnderMissableAllowUseful(name)
       /\ name \in all_excluded_locations
       /\ excluded_location_behavior > missable_location_behavior

\* the location's item rule turns down exactly the progression items of the
\* catalog
RejectsExactlyProgression(location) ==
    \A name \in ItemNames :
        item_rule(location, create_item(name))
            <=> ItemNamed(name).classification # progression

C5_NoProgressionInAllowUseful ==
    pc \in {"pre_fill", "fill"} =>
        \A name \in allow_useful_locations :
            /\ name \in DOMAIN locations
            /\ locations[name].item # NoItem => ~advancement(locations[name].item)

\* C5 witness: a location of the allow-useful set has just been filled while
\* a progression item was still waiting in the pool.
C5_Witness ==
    /\ last.op \in {"fill", "_fill_local_item"}
    /\ last.chosen \in allow_useful_locations
    /\ last.locations_before[last.chosen].item = NoItem
    /\ locations[last.chosen].item # NoItem
    /\ \E k \in DOMAIN itempool : advancement(itempool[k])

\* the names of the items a call of _create_injectable_items returned
InjectedNames == {last.items[i].name : i \in DOMAIN last.items}

\* the inject-flagged items of the catalog, and the progression ones of them
InjectFlagged == {name \in ItemNames : ItemNamed(name).inject}
MandatoryFlagged ==
    {name \in InjectFlagged : ItemNamed(name).classification = progression}

\* C6: the list _create_injectable_items(deficit) returns holds exactly
\* min(deficit, number of inject-flagged catalog items) distinct items, and
\* an optional (non-progression) injectable is in it only if every mandatory
\* (progression) injectable is.
C6_MandatoryFirst ==
    last.op = "_create_injectable_items" =>
        /\ Len(last.items) = Min(last.num, Cardinality(InjectFlagged))
        /\ Cardinality(InjectedNames) = Len(last.items)
        /\ InjectedNames \subseteq InjectFlagged
        /\ \A i \in DOMAIN last.items : last.items[i] = create_item(last.items[i].name)
        /\ (InjectedNames \ MandatoryFlagged # {} => MandatoryFlagged \subseteq InjectedNames)

\* C6 witness: two mandatory and two optional injectables, deficit 3: both
\* mandatory ones and one optional one are returned.
C6_Witness ==
    /\ last.op = "_create_injectable_items"
    /\ last.num = 3
    /\ Cardinality(MandatoryFlagged) = 2
    /\ Cardinality(InjectFlagged) = 4
    /\ MandatoryFlagged \subseteq InjectedNames
    /\ Cardinality(InjectedNames \ MandatoryFlagged) = 1

\* what a call added to the starting inventory and to the warnings
NewlyPrecollected ==
    SubSeq(precollected, Len(last.precollected_before) + 1, Len(precollected))
NewWarnings ==
    SubSeq(warnings, Len(last.warnings_before) + 1, Len(warnings))

\* C7: after _create_injectable_items(deficit) every mandatory injectable is
\* in exactly one of the returned list and the starting inventory, with one
\* warning per force-granted item; with a deficit of at least the number of
\* mandatory injectables none is force-granted; and the call has an outcome
\* for every deficit, also one larger than the injectable pool (deficit 3,
\* one mandatory injectable and no other: 1 injected, 0 force-granted).
C7_ForceGrant ==
    /\ pc = "inject" =>
          \A num \in 0..MaxDeficit : _create_injectable_items(num) # {}
    /\ last.op = "_create_injectable_items" =>
          LET granted == {NewlyPrecollected[i].name : i \in DOMAIN NewlyPrecollected}
          IN  /\ SubSeq(precollected, 1, Len(last.precollected_before))
                    = last.precollected_before
              /\ SubSeq(warnings, 1, Len(last.warnings_before)) = last.warnings_before
              /\ Cardinality(granted) = Len(NewlyPrecollected)
              /\ granted \subseteq MandatoryFlagged
              /\ \A name \in MandatoryFlagged :
                    (name \in InjectedNames) # (name \in granted)
              /\ NewWarnings =
                    [i \in DOMAIN NewlyPrecollected |->
                        InjectWarning(NewlyPrecollected[i].name)]
              /\ (last.num >= Cardinality(MandatoryFlagged) => granted = {})
              /\ (last.num = 3 /\ Cardinality(InjectFlagged) = 1
                     /\ Cardinality(MandatoryFlagged) = 1
                  => Len(last.items) = 1 /\ granted = {})

\* C7 witness: two mandatory injectables, deficit 1: one is injected, the
\* other is force-granted with a warning.
C7_Witness ==
    /\ last.op = "_create_injectable_items"
    /\ last.num = 1
    /\ Cardinality(MandatoryFlagged) = 2
    /\ Len(last.items) = 1
    /\ Len(NewlyPrecollected) = 1
    /\ NewlyPrecollected[1].name \notin InjectedNames
    /\ NewWarnings = <<InjectWarning(NewlyPrecollected[1].name)>>

\* the pool item a call of _fill_local_item picked: the first of that name
PickedIndex ==
    FirstIndex(last.pool_before,
               {it \in Range(last.pool_before) : it.name = last.name})
PickedItem == last.pool_before[PickedIndex]

\* C8: when _fill_local_item finds a candidate, the location it chooses is
\* in one of the given regions, available, not missable, not conditional,
\* passes additional_condition when one is given, held no item before the
\* call, is not in the exclusion set and its item rule accepts the item;
\* afterwards it is locked with the item and the item has left the local
\* pool.
C8_ChosenQualifies ==
    last.op = "_fill_local_item" =>
        /\ last.candidates # {} => last.chosen # None
        /\ last.chosen # None =>
              LET data == location_dictionary(last.chosen)
                  before == last.locations_before[last.chosen]
              IN  /\ \E i \in DOMAIN last.regions :
                        data \in Range(location_tables[last.regions[i]])
                  /\ data.default_item_name # None
                  /\ ~(/\ excluded_location_behavior = option_do_not_randomize
                       /\ data.name \in all_excluded_locations)
                  /\ ~(/\ missable_location_behavior = option_do_not_randomize
                       /\ data.missable)
                  /\ ~data.missable
                  /\ ~data.conditional
                  /\ last.condition.given => data.name \in last.condition.accepts
                  /\ before.item = NoItem
                  /\ last.chosen \notin all_excluded_locations
                  /\ item_rule(before, PickedItem)
                  /\ locations[last.chosen] =
                        [before EXCEPT !.item = PickedItem, !.locked = TRUE]
                  /\ \A name \in DOMAIN locations \ {last.chosen} :
                        locations[name] = last.locations_before[name]
                  /\ local_itempool = RemoveAt(last.pool_before, PickedIndex)
                  /\ \A i \in DOMAIN local_itempool : local_itempool[i].name # last.name

\* C8 witness: a call over both regions with two candidates to choose from,
\* while other locations of those regions were filtered out.
C8_Witness ==
    /\ last.op = "_fill_local_item"
    /\ last.regions = <<"R1", "R2">>
    /\ Cardinality(last.candidates) >= 2
    /\ last.chosen \in last.candidates
    /\ locations[last.chosen].locked
    /\ locations[last.chosen].item.name = last.name

\* a call of _fill_local_item that found the item in the pool and no
\* candidate location
NoCandidateCall == last.op = "_fill_local_item" /\ last.candidates = {}

\* what such a call does apart from the filler substitute
ForceGrantedToStart ==
    /\ pc # "aborted"
    /\ precollected = Append(last.precollected_before, create_item(last.name))
    /\ warnings = Append(last.warnings_before, FillWarning(last.name))
    /\ local_itempool = RemoveAt(last.pool_before, PickedIndex)

\* the positions in graph order of the locations whose catalog default is
\* the item of the call, and the first of them
DefaultSlots ==
    {i \in DOMAIN location_order :
        location_dictionary(location_order[i]).default_item_name = last.name}
FirstDefaultSlot ==
    location_order[CHOOSE i \in DefaultSlots : \A j \in DefaultSlots : i <= j]

C10_BoundedDraws ==
    last.op = "_fill_local_item" /\ last.target # None =>
        LET before == last.locations_before[last.target]
            after == locations[last.target]
            n == Len(last.draws)
        IN  /\ n <= FillerTries
            /\ before.locked => n = 0 /\ after = before
            /\ ~before.locked =>
                  /\ n >= 1
                  /\ \A i \in 1..(n - 1) :
                        ~item_rule(before, create_item(last.draws[i]))
                  /\ IF item_rule(before, create_item(last.draws[n]))
                     THEN after = [before EXCEPT !.item = create_item(last.draws[n])]
                     ELSE n = FillerTries /\ after = before

\* C10 witness: ten draws, all rejected by the item rule of a location that
\* is not locked, which keeps what it held.
C10_Witness ==
    /\ last.op = "_fill_local_item"
    /\ last.target # None
    /\ ~last.locations_before[last.target].locked
    /\ Len(last.draws) = FillerTries
    /\ \A i \in DOMAIN last.draws :
          ~item_rule(locations[last.target], create_item(last.draws[i]))
    /\ locations[last.target] = last.locations_before[last.target]

\* C11: once a location is locked (event, fixed default item, or item
\* routed by _fill_local_item) it stays locked and its item never changes,
\* whatever _fill_local_item, _replace_with_filler or the fill do later.
C11_LockedItemKept ==
    [][\A name \in DOMAIN locations :
          locations[name].locked =>
              /\ name \in DOMAIN locations'
              /\ locations'[name].locked
              /\ locations'[name].item = locations[name].item]_vars

\* C11 witness: after an item was routed to a location and locked there, a
\* call of _fill_local_item without candidates reached _replace_with_filler
\* on a location locked with its default item; both locations hold what they
\* held.
C11_Witness ==
    /\ last.op = "_fill_local_item"
    /\ last.target # None
    /\ last.locations_before[last.target].locked
    /\ locations[last.target] = last.locations_before[last.target]
    /\ \E name \in DOMAIN locations :
          /\ last.locations_before[name].locked
          /\ last.locations_before[name].item.code # NoCode
          /\ locations[name] = last.locations_before[name]

\* the rules of one kind attached so far to the target of that name, in
\* any order
RulesAddedTo(kind, name) ==
    {rules_added[i] : i \in {j \in DOMAIN rules_added :
                                /\ rules_added[j].kind = kind
                                /\ rules_added[j].name = name}}

\* C12: _add_entrance_rule, _add_location_rule and _add_item_rule never
\* replace a rule: after any sequence of rule additions the effective rule
\* of a target is the logical AND of its initial rule (which holds always)
\* and every rule added to it, whatever the order they were added in.
C12_RulesCompose ==
    /\ \A name \in DOMAIN locations :
          /\ \A state \in CollectionStates :
                access_rule(locations[name], state)
                    <=> \A added \in RulesAddedTo("location", name) :
                            \A item \in added.requires : state[item] >= 1
          /\ \A item_name \in ItemNames :
                item_rule(locations[name], create_item(item_name))
                    <=> \A added \in RulesAddedTo("item", name) :
                            RuleAccepts(added.item_rule, create_item(item_name))
    /\ \A e \in DOMAIN entrances :
          \A state \in CollectionStates :
              access_rule(entrances[e], state)
                  <=> \A added \in RulesAddedTo("entrance", entrances[e].connected_region) :
                          get_entrance(GoTo(added.name)) = e
                              => \A item \in added.requires : state[item] >= 1

\* C12 witness: two different access rules were added to one location and
\* some state passes the one added last but not the one added first.
C12_Witness ==
    /\ Len(rules_added) = 2
    /\ rules_added[1].kind = "location"
    /\ rules_added[2].kind = "location"
    /\ rules_added[1].name = rules_added[2].name
    /\ \E state \in CollectionStates :
          /\ \A item \in rules_added[2].requires : state[item] >= 1
          /\ \E item \in rules_added[1].requires : state[item] = 0
          /\ ~access_rule(locations[rules_added[1].name], state)

OpenNames(graph) == {name \in DOMAIN graph : ~graph[name].locked}

\* C14: building the graph a second time on the state the first build left
\* yields the same set of open location names and the same exclusion set,
\* for every combination of the two policy settings.
C14_RebuildSame ==
    last.op = "create_regions" =>
        /\ OpenNames(locations) = OpenNames(last.locations_before)
        /\ all_excluded_locations = last.all_excluded_before

\* C15: after _add_allow_useful_location_rules the configured priority set
\* holds no member of the allow-useful set, and every priority location
\* outside the allow-useful set is still in it.
C15_PriorityMinusAllowUseful ==
    [][(pc = "set_rules" /\ pc' = "pre_fill") =>
          /\ priority_locations' \cap last'.candidates = {}
          /\ (priority_locations \ last'.candidates) \subseteq priority_locations']_vars

\* a priority location was taken out and another one kept
C15_Witness ==
    /\ last.op = "_add_allow_useful_location_rules"
    /\ last.candidates \cap {"L1", "L2"} # {}
    /\ priority_locations # {}
    /\ priority_locations \cap last.candidates = {}

\* C16: after _add_allow_useful_location_rules options.exclude_locations is
\* empty when excluded_location_behavior is allow_useful and as it was
\* otherwise; all_excluded_locations is as it was in both cases.
C16_ExcludeCleared ==
    last.op = "_add_allow_useful_location_rules" =>
        /\ excluded_location_behavior = OptionNamed("allow_useful")
              => exclude_locations = {}
        /\ excluded_location_behavior # OptionNamed("allow_useful")
              => exclude_locations = last.excluded_before
        /\ all_excluded_locations = last.all_excluded_before

\* configured exclusions were cleared while the world's own set kept them
C16_Witness ==
    /\ last.op = "_add_allow_useful_location_rules"
    /\ excluded_location_behavior = OptionNamed("allow_useful")
    /\ last.excluded_before # {}
    /\ exclude_locations = {}
    /\ all_excluded_locations # {}

\* configured exclusions outlived the call under another policy
C16_WitnessKept ==
    /\ last.op = "_add_allow_useful_location_rules"
    /\ excluded_location_behavior # OptionNamed("allow_useful")
    /\ exclude_locations # {}

\* no two definitions of the list hold the same code, and each holds one
DistinctItemCodes(items) ==
    \A i, j \in DOMAIN items :
        /\ items[i].ap_code # NoCode
        /\ i # j => items[i].ap_code # items[j].ap_code

\* no two definitions of the list that are no events hold the same code
DistinctLocationCodes(flat) ==
    \A i, j \in DOMAIN flat :
        (~is_event(flat[i]) /\ ~is_event(flat[j])) =>
            /\ flat[i].ap_code # NoCode
            /\ i # j => flat[i].ap_code # flat[j].ap_code

\* C17: the codes of the item definitions are pairwise distinct, so are the
\* codes of the location definitions that are no events, and a second import
\* of the same definitions in the same order, the counters starting where
\* they started, gives every definition the code it had.
C17_CodesDistinctAndStable ==
    /\ DistinctItemCodes(item_dictionary)
    /\ DistinctLocationCodes(FlatTables(location_tables))
    /\ pc = "reimport" =>
          /\ \A i \in DOMAIN item_dictionary :
                item_dictionary[i].ap_code = last.items_first[i].ap_code
          /\ \A i \in DOMAIN FlatTables(location_tables) :
                FlatTables(location_tables)[i].ap_code =
                    FlatTables(last.tables_first)[i].ap_code

\* a catalog of three items and of three coded locations after an event,
\* imported a second time after generation built event items
C17_Witness ==
    /\ pc = "reimport"
    /\ Len(item_dictionary) = 3
    /\ item_dictionary = last.items_first
    /\ location_tables = last.tables_first
    /\ last.num > Len(last.items_first)
    /\ LET flat == FlatTables(location_tables)
       IN  /\ Len(flat) = 4
           /\ is_event(flat[1])
           /\ \A i \in 2..4 : ~is_event(flat[i])

\* C18: once generate_early has seeded all_excluded_locations, no step adds
\* a name to it, and a step removes a name only when it instantiates that
\* name's location as a fixed location.
C18_ExclusionsOnlyShrink ==
    [][pc # "generate_early" =>
          /\ all_excluded_locations' \subseteq all_excluded_locations
          /\ \A name \in all_excluded_locations \ all_excluded_locations' :
                /\ name \notin DOMAIN locations
                /\ name \in DOMAIN locations'
                /\ locations'[name].locked]_vars

\* generation ran to the fill with one exclusion consumed by a fixed
\* location and another one still in the set
C18_Witness ==
    /\ pc = "fill"
    /\ all_excluded_locations # {}
    /\ \E name \in DOMAIN locations :
          /\ locations[name].locked
          /\ location_dictionary(name).default_item_name # None
          /\ name \notin all_excluded_locations
          /\ ~location_dictionary(name).missable
          /\ excluded_location_behavior = OptionNamed("do_not_randomize")

\* the call was given a bare item name
BareNameCall(op) ==
    /\ last.op = op
    /\ last.rule.is_str
    /\ ~HasArrow(last.rule.item)

\* the rule list holds one rule more, and that rule holds exactly for the
\* states that have collected the item
HasRuleAdded(after, before, item_name) ==
    /\ Len(after) = Len(before) + 1
    /\ SubSeq(after, 2, Len(after)) = before
    /\ \A state \in CollectionStates : Holds(after[1], state) <=> state[item_name] >= 1

\* the locations of the call that are being randomized
RuleTargets == {name \in Range(last.names) :
                   _is_location_available(location_dictionary(name))}

\* C19 as stated: a rule given as a bare item name aborts the call with an
\* assertion failure, no rule attached, when the item is not progression;
\* when it is progression the attached rule holds exactly for the states
\* that have collected the item.
C19_Original ==
    /\ BareNameCall("_add_location_rule") =>
          IF ItemNamed(last.rule.item).classification # progression
          THEN last.error = "AssertionError" /\ locations = last.locations_before
          ELSE \A name \in RuleTargets :
                  HasRuleAdded(locations[name].access_rule,
                               last.locations_before[name].access_rule, last.rule.item)
    /\ BareNameCall("_add_entrance_rule") =>
          IF ItemNamed(last.rule.item).classification # progression
          THEN last.error = "AssertionError" /\ entrances = last.entrances_before
          ELSE (last.error = None /\ last.name \in created_regions) =>
                  HasRuleAdded(entrances[get_entrance(GoTo(last.name))].access_rule,
                               last.entrances_before[get_entrance(GoTo(last.name))].access_rule,
                               last.rule.item)

\* C19, amended: the assertion is made only for a target that is not
\* skipped.  With an item that is not progression the call aborts with an
\* assertion failure exactly when a named location is being randomized (the
\* region was created), and attaches nothing either way; with a progression
\* item it raises no assertion failure and every target that is not skipped
\* gets a rule that holds exactly for the states that have collected the item.
C19_Amended ==
    /\ BareNameCall("_add_location_rule") =>
          IF ItemNamed(last.rule.item).classification # progression
          THEN /\ last.error = IF RuleTargets = {} THEN None ELSE "AssertionError"
               /\ locations = last.locations_before
          ELSE /\ last.error = None
               /\ \A name \in DOMAIN locations :
                     IF name \in RuleTargets
                     THEN HasRuleAdded(locations[name].access_rule,
                                       last.locations_before[name].access_rule,
                                       last.rule.item)
                     ELSE locations[name] = last.locations_before[name]
    /\ BareNameCall("_add_entrance_rule") =>
          IF last.name \notin created_regions
          THEN last.error = None /\ entrances = last.entrances_before
          ELSE IF ItemNamed(last.rule.item).classification # progression
          THEN last.error = "AssertionError" /\ entrances = last.entrances_before
          ELSE /\ last.error # "AssertionError"
               /\ last.error = None =>
                     HasRuleAdded(entrances[get_entrance(GoTo(last.name))].access_rule,
                                  last.entrances_before[get_entrance(GoTo(last.name))].access_rule,
                                  last.rule.item)

\* a bare name of a useful item, the first location of the list skipped and
\* the second one being randomized: the call aborted
C19_Witness ==
    /\ BareNameCall("_add_location_rule")
    /\ ItemNamed(last.rule.item).classification = useful
    /\ last.names = <<"L2", "L1">>
    /\ RuleTargets = {"L1"}
    /\ last.error = "AssertionError"

\* a bare name of a useful item and no location being randomized: no abort
C19_WitnessSkipped ==
    /\ BareNameCall("_add_location_rule")
    /\ ItemNamed(last.rule.item).classification = useful
    /\ RuleTargets = {}
    /\ last.error = None

\* a bare name of a progression item attached to an entrance
C19_WitnessAttached ==
    /\ BareNameCall("_add_entrance_rule")
    /\ ItemNamed(last.rule.item).classification = progression
    /\ last.error = None
    /\ entrances # last.entrances_before

\* an unfilled location of the player that _is_location_available reports
\* as not randomized
SomeUnfilledUnavailable ==
    \E i \in DOMAIN get_unfilled_locations :
        ~_is_location_available(location_dictionary(get_unfilled_locations[i].name))

\* C20: create_items aborts when an unfilled location of the player is
\* reported unavailable, and then adds nothing to the shared item pool; it
\* does not abort when every unfilled location is available.
C20_AbortsOnUnavailable ==
    [][(pc = "create_items" /\ last'.op = "create_items") =>
          /\ pc' = "aborted" <=> SomeUnfilledUnavailable
          /\ SomeUnfilledUnavailable => itempool' = itempool]_vars

\* create_items aborted after it had gathered the default of an available
\* location, the shared pool left empty
C20_Witness ==
    /\ pc = "aborted"
    /\ last.op = "create_items"
    /\ SomeUnfilledUnavailable
    /\ local_itempool # <<>>
    /\ itempool = <<>>

\* create_items ran through on a graph whose open locations are all available
C20_WitnessRan ==
    /\ pc = "set_rules"
    /\ last.op = "create_items"
    /\ ~SomeUnfilledUnavailable
    /\ itempool # <<>>

\* C21: _add_entrance_rule for a catalog region that was not created
\* returns without an error and leaves every entrance as it was;
\* _add_location_rule and _add_item_rule leave a location that is not
\* available as it was.
C21_SkippedTargetsUntouched ==
    /\ (/\ last.op = "_add_entrance_rule"
        /\ last.name \in DOMAIN location_tables
        /\ last.name \notin created_regions) =>
          /\ last.error = None
          /\ entrances = last.entrances_before
          /\ locations = last.locations_before
    /\ last.op \in {"_add_location_rule", "_add_item_rule"} =>
          \A name \in DOMAIN locations :
              ~_is_location_available(location_dictionary(name)) =>
                  locations[name] = last.locations_before[name]
    /\ (/\ last.op = "_add_item_rule"
        /\ ~_is_location_available(location_dictionary(last.name))) =>
          /\ locations = last.locations_before
          /\ entrances = last.entrances_before

\* _add_entrance_rule was called with the bare name of an item that is not
\* progression for a region create_regions had not made yet
C21_Witness ==
    /\ last.op = "_add_entrance_rule"
    /\ last.name = "R2"
    /\ "R1" \in created_regions
    /\ "R2" \notin created_regions
    /\ last.rule.is_str
    /\ last.rule.item = "Memory"
    /\ last.error = None

\* _add_item_rule was called for a location that is not being randomized
C21_WitnessItemRule ==
    /\ last.op = "_add_item_rule"
    /\ ~_is_location_available(location_dictionary(last.name))
    /\ locations[last.name].locked

\* what the world that waits holds: the four attributes as a read on it
\* would find them
OtherWorldView ==
    [all_excluded_locations |-> OtherExcluded,
     exclude_locations |-> worlds.other.exclude_locations,
     created_regions |-> worlds.other.created_regions,
     local_itempool |-> OtherLocalPool]

\* C22: a step of one world changes neither the exclusion set, the
\* configured exclusion set, the created regions nor the local pool of the
\* other world, and the objects of the class stay as the class body made
\* them; what the worlds share and change is the item counter, which only
\* grows.
C22_WorldsApart ==
    [][/\ worlds'.other.id = worlds.other.id => OtherWorldView' = OtherWorldView
       /\ ClassObjects' = ClassAttributes
       /\ next_item_id' >= next_item_id]_vars

\* both worlds have run create_items, they hold different exclusion sets
\* and pools, and each has built an event item
C22_Witness ==
    /\ worlds.other.id # 0
    /\ pc \in {"set_rules", "pre_fill"}
    /\ worlds.other.pc \in {"set_rules", "pre_fill"}
    /\ all_excluded_locations # OtherExcluded
    /\ local_itempool # OtherLocalPool
    /\ local_itempool # <<>>
    /\ OtherLocalPool # <<>>
    /\ next_item_id >= item_id_start + Len(item_dictionary) + 2

\* create_region built the location as a fixed one: SekiroLocation(...,
\* event = True) carries no address
BuiltFixed(name) == locations[name].address = NoCode

\* C23: through create_items, set_rules and _fill_local_item a location that
\* create_region built fixed is reported unavailable by
\* _is_location_available, so the locations reported available are the
\* locations built open.
C23_AvailabilityStable ==
    pc \in {"create_items", "set_rules", "pre_fill", "fill"} =>
        \A name \in DOMAIN locations :
            _is_location_available(location_dictionary(name)) <=> ~BuiltFixed(name)

\* C24: once a region was given an entrance rule, every entrance named
\* "Go To <region>" that leads into it carries the rule, also when several
\* entrances share the name: no state that fails the rule passes any of them.
C24_EveryEntranceGuarded ==
    \A i \in DOMAIN rules_added :
        rules_added[i].kind = "entrance" =>
            \A e \in DOMAIN entrances :
                (/\ entrances[e].name = GoTo(rules_added[i].name)
                 /\ entrances[e].connected_region = rules_added[i].name) =>
                    \A state \in CollectionStates :
                        access_rule(entrances[e], state) =>
                            \A item \in rules_added[i].requires : state[item] >= 1

\* C25: set_rules runs to its end without a fatal error under every
\* combination of options: the location names it uses are keys of the
\* location catalog, the region names keys of location_tables, the bare
\* item names progression items.
C25_SetRulesCompletes ==
    last.op = "set_rules" =>
        /\ last.error = None
        /\ pc # "aborted"
        /\ last.num = Len(SetRulesCalls)

\* the i-th unfilled location adds to the deficit: its default item is
\* flagged skip, or is a unique item an earlier unfilled location holds
ContributesDeficit(unfilled, i) ==
    LET name == location_dictionary(unfilled[i].name).default_item_name
    IN  \/ ItemNamed(name).skip
        \/ /\ unique(ItemNamed(name))
           /\ \E j \in 1..(i - 1) :
                 location_dictionary(unfilled[j].name).default_item_name = name

\* the default items of the unfilled locations that add no deficit
RECURSIVE DefaultsKeptFrom(_, _)
DefaultsKeptFrom(unfilled, i) ==
    IF i > Len(unfilled) THEN <<>>
    ELSE IF ContributesDeficit(unfilled, i) THEN DefaultsKeptFrom(unfilled, i + 1)
    ELSE <<location_dictionary(unfilled[i].name).default_item_name>>
         \o DefaultsKeptFrom(unfilled, i + 1)

DefaultsKept(unfilled) == DefaultsKeptFrom(unfilled, 1)

\* C26: after create_items the local pool holds one item per unfilled
\* location: the default item of every location that adds no deficit (a
\* unique item once), then the injected items, then the fillers; the
\* deficit counts the skip-flagged and the repeated unique defaults, and the
\* number of fillers is the deficit less the injected items, never negative.
C26_PoolMatchesUnfilled ==
    (last.op = "create_items" /\ pc = "set_rules") =>
        LET unfilled == get_unfilled_locations
            deficit == Cardinality({i \in DOMAIN unfilled :
                                       ContributesDeficit(unfilled, i)})
            defaults == DefaultsKept(unfilled)
            injected == last.items
            fillers == Len(local_itempool) - Len(defaults) - Len(injected)
        IN  /\ Len(local_itempool) = Len(unfilled)
            /\ last.num = deficit
            /\ Len(defaults) = Len(unfilled) - deficit
            /\ fillers >= 0
            /\ fillers = deficit - Len(injected)
            /\ \A i \in 1..Len(defaults) : local_itempool[i].name = defaults[i]
            /\ \A i, j \in 1..Len(defaults) :
                  (i # j /\ unique(ItemNamed(defaults[i]))) => defaults[i] # defaults[j]
            /\ \A i \in 1..Len(injected) :
                  local_itempool[Len(defaults) + i] = injected[i]
            /\ \A i \in (Len(defaults) + Len(injected) + 1)..Len(local_itempool) :
                  local_itempool[i].name \in filler_item_names

\* create_items met a skip-flagged default and a repeated unique default,
\* injected one item and added one filler
C26_Witness ==
    /\ last.op = "create_items"
    /\ pc = "set_rules"
    /\ last.num = 2
    /\ Len(last.items) = 1
    /\ Len(local_itempool) = 4
    /\ local_itempool[4].name \in filler_item_names

\* create_items met no deficit and injected nothing
C26_WitnessNoDeficit ==
    /\ last.op = "create_items"
    /\ pc = "set_rules"
    /\ last.num = 0
    /\ last.items = <<>>
    /\ local_itempool # <<>>
    /\ Len(local_itempool) = Len(get_unfilled_locations)

\* the mechanisms that keep progression items out of a location
BarredByItemRule(name) ==
    \A item \in ItemNames :
        advancement(create_item(item)) => ~item_rule(locations[name], create_item(item))

BarredByProgressType(name) == locations[name].progress_type = EXCLUDED

BarredByExcludeOption(name) == name \in exclude_locations

\* the strictest policy that governs a location
StrictestPolicy(name) ==
    Max(IF name \in all_excluded_locations THEN excluded_location_behavior ELSE 0,
        IF location_dictionary(name).missable THEN missable_location_behavior ELSE 0)

\* C27: after create_regions and _add_allow_useful_location_rules of
\* set_rules, under each of the nine pairs of policies, every open location
\* that is missable or in all_excluded_locations is kept from progression
\* items by an item rule that rejects advancement items, by progress type
\* EXCLUDED or by its name in options.exclude_locations; and a location that
\* is both is treated as the stricter policy asks: under forbid_useful it is
\* EXCLUDED or in options.exclude_locations, and no such location is open
\* under do_not_randomize.
C27_PolicyEnforced ==
    pc \in {"pre_fill", "fill"} =>
        \A name \in DOMAIN locations :
            (/\ ~BuiltFixed(name)
             /\ \/ location_dictionary(name).missable
                \/ name \in all_excluded_locations) =>
                /\ \/ BarredByItemRule(name)
                   \/ BarredByProgressType(name)
                   \/ BarredByExcludeOption(name)
                /\ (/\ location_dictionary(name).missable
                    /\ name \in all_excluded_locations) =>
                       /\ StrictestPolicy(name) # option_do_not_randomize
                       /\ StrictestPolicy(name) = option_forbid_useful =>
                             BarredByProgressType(name) \/ BarredByExcludeOption(name)

\* the missable location L2 is excluded too, exclusion policy allow_useful,
\* missable policy forbid_useful: the configured set was cleared, no item
\* rule was added, and L2 is open with progress type EXCLUDED
C27_Witness ==
    /\ pc = "pre_fill"
    /\ excluded_location_behavior = option_allow_useful
    /\ missable_location_behavior = option_forbid_useful
    /\ "L2" \in all_excluded_locations
    /\ ~BuiltFixed("L2")
    /\ exclude_locations = {}
    /\ locations["L2"].item_rule = <<>>
    /\ BarredByProgressType("L2")

\* the policies the other way round: L2 is kept only by its name in the
\* configured exclusion set
C27_WitnessByOption ==
    /\ pc = "pre_fill"
    /\ excluded_location_behavior = option_forbid_useful
    /\ missable_location_behavior = option_allow_useful
    /\ "L2" \in all_excluded_locations
    /\ ~BuiltFixed("L2")
    /\ ~BarredByItemRule("L2")
    /\ ~BarredByProgressType("L2")
    /\ BarredByExcludeOption("L2")

====
